---- MODULE Spec2Model ----
(***************************************************************************)
(* Bethel: the synchronization core of a collaborative whiteboard.         *)
(*                                                                         *)
(*   - the server's Hub (hub.go, handlers.go of package hub): room         *)
(*     membership, fan-out, persist-then-broadcast dispatch;               *)
(*   - the client's SyncService (services/sync.ts) and the collaboration   *)
(*     hook (hooks/useCollaboration.ts): local cache, pending-action log,  *)
(*     replay pass, merge of a room_state snapshot;                        *)
(*   - the client's WebSocketClient (lib/websocket.ts): connect,           *)
(*     reconnect policy, disconnect.                                       *)
(*                                                                         *)
(* Specifications:                                                         *)
(*   Spec         the Hub with a few connections, two rooms and every      *)
(*                message type;                                            *)
(*   ColorSpec    the Hub's register/unregister path with enough           *)
(*                connections in one room for the palette to wrap around;  *)
(*   RaceSpec     the Hub's register/unregister path against the           *)
(*                sendRoomState goroutines, every interleaving;            *)
(*   OrderSpec    the Hub's reader of each connection with several frames  *)
(*                in flight, and the order of their broadcasts;            *)
(*   ConnSpec     one WebSocketClient: the hook's effect (the debounced    *)
(*                first connect, the teardown), reconnect timeouts, the    *)
(*                events of its sockets;                                   *)
(*   EditSpec     the local actions of the hook, offline and online, with  *)
(*                the replay pass;                                         *)
(*   SyncSpec     one browser against the Hub: local actions, the          *)
(*                socket's life, the replay pass, the server's reader;     *)
(*   OfflineSpec  the offline-stroke scenario: a stroke added while        *)
(*                disconnected, then one connection with its replay pass   *)
(*                and its room_state snapshot;                             *)
(*   MergeSpec    the merge of a room_state snapshot with the pending log  *)
(*                and the local cache, over all small inputs;              *)
(*   PendingSpec  the same merge over logs of every order of actions on    *)
(*                one entity;                                              *)
(*   PatchSpec    a text_update with a patch of several fields, down to    *)
(*                the statement UpdateTextBlock builds;                    *)
(*   SwitchSpec   the view goes from one room to another while the replay  *)
(*                pass of the first room runs;                             *)
(*   JoinSpec     a browser joins a room while a peer draws: its snapshot  *)
(*                against the broadcasts enqueued around it;               *)
(*   PartSpec     the participant list of a connection while others        *)
(*                register and unregister;                                 *)
(*   TitleSpec    the room record of the local database under title        *)
(*                changes;                                                 *)
(*   LockSpec     the Hub's goroutines step by step: Hub.Run and its two   *)
(*                channels, RoomsMu, the handlers and sendRoomState;       *)
(*                LockLiveSpec adds the fairness of the goroutines.        *)
(***************************************************************************)
EXTENDS Integers, Sequences, FiniteSets, TLC

\* ------------------------------------------------------------------------
\* Bounds of the model
\* ------------------------------------------------------------------------

\* connections accepted by the server in Spec
MaxClients == 3

\* connections accepted by the server in ColorSpec (one more than the palette)
ColorClients == 9

\* unregistrations served in ColorSpec
MaxLeaves == 2

\* capacity of a connection's outbound queue (the program uses 256)
SendCap == 2

\* inbound messages dispatched by the server in Spec
MaxMsgs == 1

\* connections accepted by the server in OrderSpec
OrderClients == 2

\* frames the server receives in OrderSpec
MaxFrames == 3

\* PatchSpec: the text blocks of the room, and the patches a run makes
PatchTextIds == {"tA", "tB"}

MaxPatches == 1

\* frames the peer sends in JoinSpec
JoinFrames == 2

\* connections accepted by the server in PartSpec
PartClients == 3

\* title changes the browser queues in TitleSpec
MaxTitleActions == 2

\* connections accepted by the server in LockSpec
LockClients == 2

\* connections accepted by the server in RaceSpec
RaceClients == 2

\* sockets the browser creates in ConnSpec
ConnSockets == 4

\* WebSocketClient.maxReconnectAttempts (the program's default is 10)
MaxReconnectAttempts == 2

\* connections the browser opens in EditSpec
EditConnects == 1

\* connections the browser opens in SyncSpec
MaxConnects == 2

\* local actions the browser queues in SyncSpec
MaxActions == 2

\* entries of the pending log in MergeSpec
MaxLog == 3

\* ------------------------------------------------------------------------
\* Domains
\* ------------------------------------------------------------------------

\* every connection the server may accept; 0 stands for "no connection" (nil)
ClientIds == 1..(IF ColorClients > MaxClients THEN ColorClients ELSE MaxClients)

NoClient == 0

RoomIds == {"r1", "r2"}

StrokeIds == {"sA", "sB"}

TextIds == {"tA"}

\* contents of an entity: a point sequence of a stroke, the content of a text block
Vals == {1, 2}

\* a missing string or pointer field of a message: the empty string, a nil pointer
Nil == "nil"

\* a missing content: a nil slice of points, a nil patch
NoVal == 0

\* WebSocketClient.reconnectTimeout = null
NoTimer == 0

\* a missing record: a nil pointer to a struct, a row that does not exist
NoRec == [none |-> TRUE]

\* len(h.Colors)
PaletteSize == 8

\* Hub.Colors
Colors == <<"#FF3B30", "#007AFF", "#34C759", "#FF9500", "#AF52DE", "#5AC8FA", "#FF2D55", "#FFCC00">>

\* the message types with a persistence call
Mutating == {"stroke_add", "stroke_update", "text_add", "text_update", "text_delete", "clear_all"}

\* the handlers that reply with a typed error on a persistence failure
RepliesError == {"stroke_add", "text_add", "clear_all"}

\* the cases of HandleMessage's switch
Handled == Mutating \cup {"cursor_move"}

\* every type a client may put in the envelope; room_update and "bogus" (any
\* other string) are not cases of the switch
ClientTypes == Handled \cup {"room_update", "bogus"}

\* ------------------------------------------------------------------------
\* State
\* ------------------------------------------------------------------------
VARIABLES
    \* Hub.Rooms: room id -> set of connections; its DOMAIN is the set of entries
    Rooms,
    \* Client.RoomID, "" before the connection is accepted
    clientRoom,
    \* Client.Color, "" before registration
    clientColor,
    \* Client.Send: the buffered channel, as the sequence of its messages
    Send,
    \* whether close(client.Send) has been executed
    sendClosed,
    \* the next connection to be accepted
    nextClient,
    \* the reader loop of a connection: "none", "read" (waiting for a message),
    \* "handle" (in a handler, after its persistence call), "closed"
    pc,
    \* the locals of the handler a reader is in: the message and the result err
    cur,
    \* the sendRoomState goroutine of a connection: "none","fetch","check","send","done"
    srs,
    \* the locals of sendRoomState: the fetched room state and the message
    snap,
    \* the strokes table: id -> NoRec or [roomId, points, createdBy]
    dbStrokes,
    \* the text_blocks table: id -> NoRec or [roomId, content]
    dbTexts,
    \* number of inbound messages dispatched so far
    msgCount,
    \* history: whether a connection left the room since the room was last empty
    leftSince

hubVars == <<Rooms, clientRoom, clientColor, Send, sendClosed, nextClient, pc, cur,
             srs, snap, dbStrokes, dbTexts, msgCount, leftSince>>

VARIABLES
    \* db.strokes of the browser (the local cache): id -> points, NoVal if absent
    lStrokes,
    \* db.textBlocks of the browser: id -> content, NoVal if absent
    lTexts,
    \* db.pendingActions, in primary-key order: [id, type, eid, val, createdAt]
    pending,
    \* the next auto-incremented primary key of db.pendingActions
    nextId,
    \* the last value Date.now() returned
    clock,
    \* the hook's state "strokes": the array shown, of [id, val]
    vStrokes,
    \* the hook's state "textBlocks"
    vTexts,
    \* WebSocketClient.ws: "none" (null), or the readyState of the socket:
    \* "connecting", "open", "closing", "closed"
    ws,
    \* the server's connection at the other end of WebSocketClient.ws
    sock,
    \* WebSocketClient.isDestroyed
    isDestroyed,
    \* the frames a connection's socket carries to the server, in order
    wire,
    \* SyncService.isSyncing
    isSyncing,
    \* the invocations of SyncService.sync: [pc, actions, idx, conn]; pc is "idle",
    \* "read" (awaiting the read of the log) or "loop" (in the for loop); conn
    \* (history) is the connection whose onConnect made the call
    pass,
    \* history: the server's tables when the running pass read the log
    base,
    \* history: nothing but the running pass wrote to the server since then
    clean,
    \* the hook's connect effect of the mounted view: the room id it runs for,
    \* its locals isCancelled and isConnected, and wsRef (whether wsRef.current
    \* is the effect's client; it is null otherwise)
    effect

VARIABLES
    \* the sockets WebSocketClient.ws no longer refers to: socket -> readyState
    \* ("none" for a socket that was not created or is still this.ws)
    detached,
    \* WebSocketClient.reconnectAttempts
    reconnectAttempts,
    \* WebSocketClient.reconnectTimeout: a timer id, NoTimer for null
    reconnectTimeout,
    \* the timeouts set by attemptReconnect that have neither fired nor been
    \* cleared, in the order they were set (all have the same delay)
    timers,
    \* WebSocketClient.isIntentionalClose
    isIntentionalClose,
    \* the hook's state isDisconnectedPermanently
    isDisconnectedPermanently,
    \* the hook's state isConnected (setIsConnected)
    isConnectedState,
    \* db.rooms of the browser: room id -> title, Nil if there is no record
    lRooms

tcVars == <<detached, reconnectAttempts, reconnectTimeout, timers, isIntentionalClose,
            isDisconnectedPermanently, isConnectedState, lRooms>>

VARIABLES
    \* Hub.RoomsMu, the sync.RWMutex: the goroutine holding it exclusively (Nil
    \* for none), the goroutines holding it shared, and whether a Lock() call
    \* waits (a waiting Lock() makes the RLock() calls after it wait)
    RoomsMu,
    \* Hub.Run, [op, c, at]: at is "select" while it waits on its two channels;
    \* otherwise op and c are the request it took and at is "Lock" (in
    \* RoomsMu.Lock()) or "locked" (in registerClient / unregisterClient)
    run

lockVars == <<RoomsMu, run>>

browserVars == <<lStrokes, lTexts, pending, nextId, clock, vStrokes, vTexts, ws, sock,
                 isDestroyed, wire, isSyncing, pass, base, clean, effect, tcVars>>

\* what a step of the Hub of the other specifications leaves alone: the
\* browser, and the lock and the loop of Hub.Run, whose steps LockSpec follows
cliVars == <<browserVars, lockVars>>

vars == <<hubVars, cliVars>>

\* ------------------------------------------------------------------------
\* Hub: helpers
\* ------------------------------------------------------------------------

\* h.Rooms[roomID] of a Go map: the nil (empty) set when there is no entry
RoomOf(rooms, r) == IF r \in DOMAIN rooms THEN rooms[r] ELSE {}

\* ServerMessage, the fields the model keeps
ServerMessage(type, pid, id, val) == [type |-> type, pid |-> pid, id |-> id, val |-> val]

\* a send that finds room whatever the channel holds
TrySend_Unbounded(q, m) == Append(q, m)

\* a send on a channel that hands out its latest message first
TrySend_Front(q, m) == IF Len(q) < SendCap THEN <<m>> \o q ELSE q

\* a non-blocking send on a buffered channel: select { case ch <- data: default: }
TrySend(q, m) == IF Len(q) < SendCap THEN Append(q, m) ELSE q

\* broadcastToRoomUnsafe with the first branch of its loop dropped: the
\* excluded connection is not skipped
BroadcastToRoomUnsafe_NoExclude(rooms, send, roomID, msg, exclude) ==
    IF roomID \notin DOMAIN rooms
    THEN send
    ELSE [d \in DOMAIN send |->
            IF d \in rooms[roomID] THEN TrySend(send[d], msg) ELSE send[d]]

\* broadcastToRoomUnsafe with a loop over the connections of every room
BroadcastToRoomUnsafe_EveryRoom(rooms, send, roomID, msg, exclude) ==
    [d \in DOMAIN send |->
        IF d \in UNION {rooms[r] : r \in DOMAIN rooms} /\ d # exclude
        THEN TrySend(send[d], msg)
        ELSE send[d]]

\* broadcastToRoomUnsafe: the caller holds the lock; returns the channels after
\* the loop over the room's connections
BroadcastToRoomUnsafe(rooms, send, roomID, msg, exclude) ==
    IF roomID \notin DOMAIN rooms
    THEN send
    ELSE [d \in DOMAIN send |->
            IF d \in rooms[roomID] /\ d # exclude
            THEN TrySend(send[d], msg)
            ELSE send[d]]

\* Client.ToParticipant
ToParticipant(c) == [id |-> c, color |-> clientColor[c]]

\* the rows the store may hold when the server starts
StoredStroke == [roomId |-> "r1", points |-> 1, createdBy |-> NoClient]

StoredText == [roomId |-> "r1", content |-> 1]

\* ------------------------------------------------------------------------
\* Hub: Init
\* ------------------------------------------------------------------------
HubInit ==
    /\ Rooms = << >>
    /\ clientRoom = [c \in ClientIds |-> ""]
    /\ clientColor = [c \in ClientIds |-> ""]
    /\ Send = [c \in ClientIds |-> << >>]
    /\ sendClosed = [c \in ClientIds |-> FALSE]
    /\ nextClient = 1
    /\ pc = [c \in ClientIds |-> "none"]
    /\ cur = [c \in ClientIds |-> NoRec]
    /\ srs = [c \in ClientIds |-> "none"]
    /\ snap = [c \in ClientIds |-> NoRec]
    /\ \E stored \in BOOLEAN :
          /\ dbStrokes = [i \in StrokeIds |->
                            IF stored /\ i = "sB" THEN StoredStroke ELSE NoRec]
          /\ dbTexts = [i \in TextIds |-> IF stored THEN StoredText ELSE NoRec]
    /\ msgCount = 0
    /\ leftSince = [r \in RoomIds |-> FALSE]

\* ------------------------------------------------------------------------
\* Persistence Store (package models)
\* ------------------------------------------------------------------------

\* CreateStroke: INSERT ... ON CONFLICT (id) DO NOTHING
CreateStroke(db, id, roomId, points, createdBy) ==
    IF db[id] # NoRec
    THEN db
    ELSE [db EXCEPT ![id] = [roomId |-> roomId, points |-> points, createdBy |-> createdBy]]

\* UpdateStrokePoints: UPDATE strokes SET points = $1 WHERE id = $2
UpdateStrokePoints(db, id, points) ==
    IF db[id] = NoRec THEN db ELSE [db EXCEPT ![id].points = points]

\* CreateTextBlock: a plain INSERT; a duplicate id violates the primary key
CreateTextBlockFails(db, id) == db[id] # NoRec

CreateTextBlock(db, id, roomId, content) ==
    [db EXCEPT ![id] = [roomId |-> roomId, content |-> content]]

\* UpdateTextBlock: UPDATE text_blocks SET updated_at = $1, content = $2 WHERE id = $3
UpdateTextBlock(db, id, content) ==
    IF db[id] = NoRec THEN db ELSE [db EXCEPT ![id].content = content]

\* DeleteTextBlock: DELETE FROM text_blocks WHERE id = $1
DeleteTextBlock(db, id) == [db EXCEPT ![id] = NoRec]

\* ClearRoom, on one table: DELETE FROM <table> WHERE room_id = $1
ClearRoom(db, roomId) ==
    [i \in DOMAIN db |-> IF db[i] # NoRec /\ db[i].roomId = roomId THEN NoRec ELSE db[i]]

\* the statement of ClearRoom's transaction that returns an error: 1 pool.Begin
\* or the DELETE on strokes, 2 the DELETE on text_blocks, 3 the UPDATE of the
\* room's timestamp, 4 tx.Commit; 0 stands for none
ClearRoomFailures == 1..4

\* ClearRoom with every statement run on the pool itself, outside a transaction:
\* the statements before the failing one stay in effect
ClearRoomTx_NoRollback(strokes, texts, roomId, failAt) ==
    [strokes |-> IF failAt = 1 THEN strokes ELSE ClearRoom(strokes, roomId),
     texts   |-> IF failAt \in {1, 2} THEN texts ELSE ClearRoom(texts, roomId)]

\* ClearRoom, both tables: the two DELETEs and the UPDATE run in one
\* transaction; the deferred tx.Rollback undoes them unless tx.Commit succeeded
ClearRoomTx(strokes, texts, roomId, failAt) ==
    LET s1 == IF failAt = 1 THEN strokes ELSE ClearRoom(strokes, roomId)
        t1 == IF failAt \in {1, 2} THEN texts ELSE ClearRoom(texts, roomId)
    IN  IF failAt = 0
        THEN [strokes |-> s1, texts |-> t1]
        ELSE [strokes |-> strokes, texts |-> texts]

\* GetRoomState: the strokes and text blocks of a room, id -> content
GetRoomState(roomId) ==
    [strokes |-> [i \in StrokeIds |->
                    IF dbStrokes[i] # NoRec /\ dbStrokes[i].roomId = roomId
                    THEN dbStrokes[i].points ELSE NoVal],
     texts   |-> [i \in TextIds |->
                    IF dbTexts[i] # NoRec /\ dbTexts[i].roomId = roomId
                    THEN dbTexts[i].content ELSE NoVal]]

\* the state sendRoomState makes up when GetRoomState fails
EmptyRoomState ==
    [strokes |-> [i \in StrokeIds |-> NoVal], texts |-> [i \in TextIds |-> NoVal]]

\* ------------------------------------------------------------------------
\* Hub: register, unregister
\* ------------------------------------------------------------------------

\* the color assignment of registerClient without the modulo: index = size
ColorFor_NoWrap(n) == Colors[IF n + 1 > Len(Colors) THEN Len(Colors) ELSE n + 1]

\* colorIndex := len(h.Rooms[client.RoomID]) % len(h.Colors); h.Colors[colorIndex]
ColorFor(n) == Colors[(n % Len(Colors)) + 1]

\* registerClient, run by Hub.Run for a client taken from h.Register
registerClient(c, r) ==
    LET room0    == RoomOf(Rooms, r)
        color    == ColorFor(Cardinality(room0))
        rooms1   == [x \in DOMAIN Rooms \cup {r} |->
                        IF x = r THEN room0 \cup {c} ELSE Rooms[x]]
        joinMsg  == ServerMessage("participant_join", c, color, NoVal)
    IN  /\ Rooms' = rooms1
        /\ clientColor' = [clientColor EXCEPT ![c] = color]
        /\ Send' = BroadcastToRoomUnsafe(rooms1, Send, r, joinMsg, c)
        /\ srs' = [srs EXCEPT ![c] = "fetch"]

\* WebSocketHandler: a new Client for the room of the URL, handed to h.Register,
\* then the two pumps are started
WebSocketHandler(c, r) ==
    /\ c = nextClient
    /\ nextClient' = nextClient + 1
    /\ clientRoom' = [clientRoom EXCEPT ![c] = r]
    /\ pc' = [pc EXCEPT ![c] = "read"]
    /\ registerClient(c, r)
    /\ UNCHANGED <<sendClosed, cur, snap, dbStrokes, dbTexts, msgCount, leftSince>>

\* the room map after unregisterClient that keeps the entry of an emptied room
RoomsAfterLeave_KeepEmpty(r, rest) == [Rooms EXCEPT ![r] = rest]

\* the room map after unregisterClient removed a connection: the entry of an
\* emptied room is deleted
RoomsAfterLeave(r, rest) ==
    IF rest = {}
    THEN [x \in DOMAIN Rooms \ {r} |-> Rooms[x]]
    ELSE [Rooms EXCEPT ![r] = rest]

\* unregisterClient without its two tests: the connection is removed, closed
\* and announced whether or not the room's set holds it
unregisterClient_NoMemberTest(c) ==
    LET r        == clientRoom[c]
        rest     == RoomOf(Rooms, r) \ {c}
        leaveMsg == ServerMessage("participant_leave", c, Nil, NoVal)
    IN  /\ sendClosed' = [sendClosed EXCEPT ![c] = TRUE]
        /\ Send' = [d \in DOMAIN Send |->
                        IF d \in rest THEN TrySend(Send[d], leaveMsg) ELSE Send[d]]
        /\ Rooms' = IF r \in DOMAIN Rooms THEN RoomsAfterLeave(r, rest) ELSE Rooms
        /\ leftSince' = [leftSince EXCEPT ![r] = (rest # {})]

\* unregisterClient, run by Hub.Run for a client taken from h.Unregister
unregisterClient(c) ==
    LET r == clientRoom[c] IN
    IF r \in DOMAIN Rooms /\ c \in Rooms[r]
    THEN LET rest     == Rooms[r] \ {c}
             rooms1   == [Rooms EXCEPT ![r] = rest]
             leaveMsg == ServerMessage("participant_leave", c, Nil, NoVal)
         IN  /\ sendClosed' = [sendClosed EXCEPT ![c] = TRUE]
             /\ Send' = BroadcastToRoomUnsafe(rooms1, Send, r, leaveMsg, NoClient)
             /\ Rooms' = RoomsAfterLeave(r, rest)
             /\ leftSince' = [leftSince EXCEPT ![r] = (rest # {})]
    ELSE UNCHANGED <<sendClosed, Send, Rooms, leftSince>>

\* the reader loop ends (peer close, read error) and hands the client to
\* h.Unregister; a request for a client already unregistered is served too
Unregister(c) ==
    /\ pc[c] \in {"read", "closed"}
    /\ pc' = [pc EXCEPT ![c] = "closed"]
    /\ unregisterClient(c)
    /\ UNCHANGED <<clientRoom, clientColor, nextClient, cur, srs, snap,
                   dbStrokes, dbTexts, msgCount>>

\* the writer loop takes one message off the channel and writes it to the socket
WritePump(c) ==
    /\ Send[c] # << >>
    /\ Send' = [Send EXCEPT ![c] = Tail(Send[c])]
    /\ UNCHANGED <<Rooms, clientRoom, clientColor, sendClosed, nextClient, pc, cur,
                   srs, snap, dbStrokes, dbTexts, msgCount, leftSince>>

\* ------------------------------------------------------------------------
\* Hub: inbound messages (HandleMessage and the handlers)
\* ------------------------------------------------------------------------

\* ClientMessage, the fields the model keeps: the entity id (of msg.Stroke,
\* msg.StrokeID, msg.TextBlock, msg.TextBlockID) and the content (the points,
\* the text block's content, the patch)
ClientMessage(type, id, val) == [type |-> type, id |-> id, val |-> val]

\* the inbound messages of the model: well-formed ones and ones lacking a field
ClientMsgs ==
    {ClientMessage("stroke_add", i, v) : i \in StrokeIds, v \in Vals}
    \cup {ClientMessage("stroke_add", Nil, NoVal)}
    \cup {ClientMessage("stroke_update", i, v) : i \in StrokeIds, v \in Vals}
    \cup {ClientMessage("stroke_update", Nil, 1)}
    \cup {ClientMessage("stroke_update", i, NoVal) : i \in StrokeIds}
    \cup {ClientMessage("text_add", i, v) : i \in TextIds, v \in Vals}
    \cup {ClientMessage("text_add", Nil, NoVal)}
    \cup {ClientMessage("text_update", i, v) : i \in TextIds, v \in Vals}
    \cup {ClientMessage("text_update", Nil, 1)}
    \cup {ClientMessage("text_update", i, NoVal) : i \in TextIds}
    \cup {ClientMessage("text_delete", i, NoVal) : i \in TextIds \cup {Nil}}
    \cup {ClientMessage("cursor_move", Nil, v) : v \in Vals}
    \cup {ClientMessage("clear_all", Nil, NoVal), ClientMessage("bogus", Nil, NoVal)}

\* the early returns of the handlers with the tests of the content dropped:
\* only a missing id makes a handler return
MissingField_IdOnly(m) ==
    CASE m.type \in {"stroke_add", "text_add"}       -> m.id = Nil
      [] m.type \in {"stroke_update", "text_update"} -> m.id = Nil
      [] m.type = "text_delete"                      -> m.id = Nil
      [] OTHER                                       -> FALSE

\* the early returns of the handlers: a required field is missing
MissingField(m) ==
    CASE m.type \in {"stroke_add", "text_add"}       -> m.id = Nil
      [] m.type \in {"stroke_update", "text_update"} -> m.id = Nil \/ m.val = NoVal
      [] m.type = "text_delete"                      -> m.id = Nil
      [] OTHER                                       -> FALSE

\* the result err of the handler's persistence call; fail: the store is unavailable
PersistErr(m, fail) ==
    fail \/ (m.type = "text_add" /\ CreateTextBlockFails(dbTexts, m.id))

\* the persistence call of the handler of m, on the strokes table
PersistStrokesOn(db, c, m) ==
    CASE m.type = "stroke_add"    -> CreateStroke(db, m.id, clientRoom[c], m.val, c)
      [] m.type = "stroke_update" -> UpdateStrokePoints(db, m.id, m.val)
      [] m.type = "clear_all"     -> ClearRoom(db, clientRoom[c])
      [] OTHER                    -> db

\* the persistence call of the handler of m, on the text_blocks table
PersistTextsOn(db, c, m) ==
    CASE m.type = "text_add"    -> CreateTextBlock(db, m.id, clientRoom[c], m.val)
      [] m.type = "text_update" -> UpdateTextBlock(db, m.id, m.val)
      [] m.type = "text_delete" -> DeleteTextBlock(db, m.id)
      [] m.type = "clear_all"   -> ClearRoom(db, clientRoom[c])
      [] OTHER                  -> db

\* the strokes table after the handler's persistence call
PersistStrokes(c, m) == PersistStrokesOn(dbStrokes, c, m)

\* the text_blocks table after the handler's persistence call
PersistTexts(c, m) == PersistTextsOn(dbTexts, c, m)

\* HandleMessage up to the return of the persistence call: the reader decoded
\* message m; unknown types and messages lacking a field are dropped
HandleMessage(c, m, fail) ==
    /\ pc[c] = "read"
    /\ fail => m.type \in Mutating /\ ~MissingField(m)
    /\ IF m.type \notin Handled \/ MissingField(m)
       THEN UNCHANGED <<pc, cur, dbStrokes, dbTexts>>
       ELSE /\ pc' = [pc EXCEPT ![c] = "handle"]
            /\ cur' = [cur EXCEPT ![c] = [msg |-> m, err |-> PersistErr(m, fail)]]
            /\ IF PersistErr(m, fail)
               THEN IF m.type = "clear_all"
                    THEN \E at \in ClearRoomFailures :
                            LET r == ClearRoomTx(dbStrokes, dbTexts, clientRoom[c], at)
                            IN  dbStrokes' = r.strokes /\ dbTexts' = r.texts
                    ELSE UNCHANGED <<dbStrokes, dbTexts>>
               ELSE /\ dbStrokes' = PersistStrokes(c, m)
                    /\ dbTexts' = PersistTexts(c, m)
    /\ UNCHANGED <<Rooms, clientRoom, clientColor, Send, sendClosed, nextClient,
                   srs, snap, leftSince>>

\* the inbound messages of Spec are counted
Dispatch(c, m, fail) ==
    /\ msgCount < MaxMsgs
    /\ msgCount' = msgCount + 1
    /\ HandleMessage(c, m, fail)

\* sendError: a non-blocking send of a typed error on the sender's own channel
sendError(c) == [Send EXCEPT ![c] = TrySend(Send[c], ServerMessage("error", NoClient, Nil, NoVal))]

\* broadcastToRoom: broadcastToRoomUnsafe under the read lock
broadcastToRoom(roomID, msg, exclude) ==
    BroadcastToRoomUnsafe(Rooms, Send, roomID, msg, exclude)

\* the loop of handleClearAll with the sender skipped, as broadcastToRoom does
clearAllLoop_ExcludeSender(c) ==
    [d \in DOMAIN Send |->
        IF d \in RoomOf(Rooms, clientRoom[c]) /\ d # c
        THEN TrySend(Send[d], ServerMessage("clear_all", c, Nil, NoVal))
        ELSE Send[d]]

\* the loop of handleClearAll, under the read lock: every connection of the room
clearAllLoop(c) ==
    [d \in DOMAIN Send |->
        IF d \in RoomOf(Rooms, clientRoom[c])
        THEN TrySend(Send[d], ServerMessage("clear_all", c, Nil, NoVal))
        ELSE Send[d]]

\* the rest of a handler with its "if err != nil { ...; return }" removed
HandlerSends_IgnoreErr(c) ==
    LET m == cur[c].msg IN
    IF m.type = "clear_all"
    THEN clearAllLoop(c)
    ELSE broadcastToRoom(clientRoom[c], ServerMessage(m.type, c, m.id, m.val), c)

\* the channels after the rest of a handler: on an error, the reply of the
\* handlers that send one; otherwise the broadcast
HandlerSends(c) ==
    LET m == cur[c].msg IN
    IF cur[c].err
    THEN IF m.type \in RepliesError THEN sendError(c) ELSE Send
    ELSE IF m.type = "clear_all"
         THEN clearAllLoop(c)
         ELSE broadcastToRoom(clientRoom[c], ServerMessage(m.type, c, m.id, m.val), c)

\* the rest of a handler, from the test of err to its return
HandlerReturn(c) ==
    /\ pc[c] = "handle"
    /\ Send' = HandlerSends(c)
    /\ pc' = [pc EXCEPT ![c] = "read"]
    /\ cur' = [cur EXCEPT ![c] = NoRec]
    /\ UNCHANGED <<Rooms, clientRoom, clientColor, sendClosed, nextClient,
                   srs, snap, dbStrokes, dbTexts, msgCount, leftSince>>

\* ------------------------------------------------------------------------
\* Hub: sendRoomState, the goroutine started by registerClient
\* ------------------------------------------------------------------------

\* models.GetRoomState returned; on an error the empty state is used
SrsFetch(c, ok) ==
    /\ srs[c] = "fetch"
    /\ srs' = [srs EXCEPT ![c] = "check"]
    /\ snap' = [snap EXCEPT ![c] = IF ok THEN GetRoomState(clientRoom[c]) ELSE EmptyRoomState]
    /\ UNCHANGED <<Rooms, clientRoom, clientColor, Send, sendClosed, nextClient, pc, cur,
                   dbStrokes, dbTexts, msgCount, leftSince>>

\* under the read lock: return if the client left, else collect the participants
SrsCheck(c) ==
    /\ srs[c] = "check"
    /\ IF c \in RoomOf(Rooms, clientRoom[c])
       THEN /\ srs' = [srs EXCEPT ![c] = "send"]
            /\ snap' = [snap EXCEPT ![c] =
                          [type |-> "room_state", pid |-> NoClient, roomState |-> snap[c],
                           participants |-> {ToParticipant(d) : d \in Rooms[clientRoom[c]]}]]
       ELSE /\ srs' = [srs EXCEPT ![c] = "done"]
            /\ snap' = [snap EXCEPT ![c] = NoRec]
    /\ UNCHANGED <<Rooms, clientRoom, clientColor, Send, sendClosed, nextClient, pc, cur,
                   dbStrokes, dbTexts, msgCount, leftSince>>

\* the select on client.Send, after the lock was released: a send on a closed
\* channel panics and the deferred recover swallows it
SrsSend(c) ==
    /\ srs[c] = "send"
    /\ Send' = IF sendClosed[c] THEN Send ELSE [Send EXCEPT ![c] = TrySend(Send[c], snap[c])]
    /\ srs' = [srs EXCEPT ![c] = "done"]
    /\ snap' = [snap EXCEPT ![c] = NoRec]
    /\ UNCHANGED <<Rooms, clientRoom, clientColor, sendClosed, nextClient, pc, cur,
                   dbStrokes, dbTexts, msgCount, leftSince>>

\* ------------------------------------------------------------------------
\* Client: the browser's tables, the hook's state, the socket
\* ------------------------------------------------------------------------

\* the room the hook is mounted for
RoomId == "r1"

\* the invocations of SyncService.sync that may be in progress at once
Invocations == {1, 2}

IdlePass == [pc |-> "idle", actions |-> << >>, idx |-> 0, conn |-> NoClient]

CliInit ==
    /\ lStrokes = [i \in StrokeIds |-> NoVal]
    /\ lTexts = [i \in TextIds |-> NoVal]
    /\ pending = << >>
    /\ nextId = 1
    /\ clock = 0
    /\ vStrokes = << >>
    /\ vTexts = << >>
    /\ ws = "none"
    /\ sock = NoClient
    /\ isDestroyed = FALSE
    /\ wire = [c \in ClientIds |-> << >>]
    /\ isSyncing = FALSE
    /\ pass = [k \in Invocations |-> IdlePass]
    /\ base = NoRec
    /\ RoomsMu = [writer |-> Nil, readers |-> {}, waiting |-> FALSE]
    /\ run = [op |-> Nil, c |-> NoClient, at |-> "select"]
    /\ clean = FALSE
    /\ effect = [roomId |-> RoomId, isCancelled |-> FALSE, isConnected |-> FALSE,
                 wsRef |-> FALSE]
    /\ detached = [c \in ClientIds |-> "none"]
    /\ reconnectAttempts = 0
    /\ reconnectTimeout = NoTimer
    /\ timers = << >>
    /\ isIntentionalClose = FALSE
    /\ isDisconnectedPermanently = FALSE
    /\ isConnectedState = FALSE
    /\ lRooms = [r \in RoomIds |-> Nil]

Init == HubInit /\ CliInit

\* the ids of an array of entities
Ids(view) == {view[i].id : i \in 1..Len(view)}

\* the entity of an array with a given id: its content, NoVal if there is none
ValOf(view, id) ==
    IF id \in Ids(view)
    THEN view[CHOOSE i \in 1..Len(view) : view[i].id = id].val
    ELSE NoVal

\* prev.map(e => e.id === id ? {...e, val} : e)
MapVal(view, id, val) ==
    [i \in 1..Len(view) |-> IF view[i].id = id THEN [id |-> id, val |-> val] ELSE view[i]]

\* prev.filter(e => e.id !== id)
Without(view, id) == SelectSeq(view, LAMBDA e : e.id # id)

\* prev.find(e => e.id === x.id) ? prev : [...prev, x]
AddIfAbsent(view, id, val) ==
    IF id \in Ids(view) THEN view ELSE Append(view, [id |-> id, val |-> val])

\* Map.set on the values of a Map, in insertion order: an existing key keeps
\* its position
MapSet(view, id, val) ==
    IF id \in Ids(view) THEN MapVal(view, id, val) ELSE Append(view, [id |-> id, val |-> val])

\* Set.add, Set.delete on a Set in insertion order
SetAdd(q, x) == IF \E i \in 1..Len(q) : q[i] = x THEN q ELSE Append(q, x)

SetDelete(q, x) == SelectSeq(q, LAMBDA y : y # x)

\* WebSocketClient.isConnected
isConnected == ws = "open"

\* WebSocketClient.send: the frame is written if the socket is open; otherwise
\* a warning is logged and nothing else happens
send(m) ==
    IF ws = "open" THEN [wire EXCEPT ![sock] = Append(wire[sock], m)] ELSE wire

\* queueAction: db.pendingActions.add with createdAt: Date.now(); now is the
\* value the clock returns
queueAction(type, eid, val, now) ==
    Append(pending, [id |-> nextId, type |-> type, eid |-> eid, val |-> val, createdAt |-> now])

\* ------------------------------------------------------------------------
\* Client: the local actions of the hook (useCollaboration) with the
\* SyncService wrappers they call: the view, a direct send if connected, the
\* local cache, the pending log
\* ------------------------------------------------------------------------

\* ids are generated by the client: a new entity's id is in use nowhere
FreshId(id) ==
    /\ \A i \in 1..Len(pending) : pending[i].eid # id
    /\ \A c \in ClientIds : \A i \in 1..Len(wire[c]) : wire[c][i].id # id
    /\ id \in StrokeIds => lStrokes[id] = NoVal /\ dbStrokes[id] = NoRec /\ id \notin Ids(vStrokes)
    /\ id \in TextIds => lTexts[id] = NoVal /\ dbTexts[id] = NoRec /\ id \notin Ids(vTexts)

\* what the local actions leave alone
LocalFrame == UNCHANGED <<hubVars, ws, sock, isDestroyed, isSyncing, pass, tcVars>>

\* addStroke and SyncService.saveStroke(stroke)
addStroke(id, val, now) ==
    /\ FreshId(id)
    /\ vStrokes' = Append(vStrokes, [id |-> id, val |-> val])
    /\ wire' = send(ClientMessage("stroke_add", id, val))
    /\ lStrokes' = [lStrokes EXCEPT ![id] = val]
    /\ pending' = queueAction("stroke_add", id, val, now)
    /\ nextId' = nextId + 1
    /\ clock' = now
    /\ UNCHANGED <<vTexts, lTexts>>
    /\ LocalFrame

\* updateStroke and SyncService.updateStroke(strokeId, points, roomId): the
\* cache and the log change only if the cache holds the stroke
updateStroke(id, val, now) ==
    /\ id \in Ids(vStrokes)
    /\ vStrokes' = MapVal(vStrokes, id, val)
    /\ wire' = send(ClientMessage("stroke_update", id, val))
    /\ IF lStrokes[id] # NoVal
       THEN /\ lStrokes' = [lStrokes EXCEPT ![id] = val]
            /\ pending' = queueAction("stroke_update", id, val, now)
            /\ nextId' = nextId + 1
            /\ clock' = now
       ELSE UNCHANGED <<lStrokes, pending, nextId, clock>>
    /\ UNCHANGED <<vTexts, lTexts>>
    /\ LocalFrame

\* addTextBlock and SyncService.saveTextBlock(textBlock)
addTextBlock(id, val, now) ==
    /\ FreshId(id)
    /\ vTexts' = Append(vTexts, [id |-> id, val |-> val])
    /\ wire' = send(ClientMessage("text_add", id, val))
    /\ lTexts' = [lTexts EXCEPT ![id] = val]
    /\ pending' = queueAction("text_add", id, val, now)
    /\ nextId' = nextId + 1
    /\ clock' = now
    /\ UNCHANGED <<vStrokes, lStrokes>>
    /\ LocalFrame

\* updateTextBlock and SyncService.updateTextBlock(textBlockId, updates, roomId)
updateTextBlock(id, val, now) ==
    /\ id \in Ids(vTexts)
    /\ vTexts' = MapVal(vTexts, id, val)
    /\ wire' = send(ClientMessage("text_update", id, val))
    /\ IF lTexts[id] # NoVal
       THEN /\ lTexts' = [lTexts EXCEPT ![id] = val]
            /\ pending' = queueAction("text_update", id, val, now)
            /\ nextId' = nextId + 1
            /\ clock' = now
       ELSE UNCHANGED <<lTexts, pending, nextId, clock>>
    /\ UNCHANGED <<vStrokes, lStrokes>>
    /\ LocalFrame

\* deleteTextBlock and SyncService.deleteTextBlock(textBlockId, roomId)
deleteTextBlock(id, now) ==
    /\ id \in Ids(vTexts)
    /\ vTexts' = Without(vTexts, id)
    /\ wire' = send(ClientMessage("text_delete", id, NoVal))
    /\ lTexts' = [lTexts EXCEPT ![id] = NoVal]
    /\ pending' = queueAction("text_delete", id, NoVal, now)
    /\ nextId' = nextId + 1
    /\ clock' = now
    /\ UNCHANGED <<vStrokes, lStrokes>>
    /\ LocalFrame

\* SyncService.touchRoom on the table db.rooms: put { id, title:
\* existing?.title || title, updatedAt }; "" is falsy
touchRoom(rooms, roomId, title) ==
    [rooms EXCEPT ![roomId] =
        IF rooms[roomId] # Nil /\ rooms[roomId] # "" THEN rooms[roomId] ELSE title]

\* what a change of the room record leaves alone
TitleFrame ==
    UNCHANGED <<hubVars, ws, sock, isDestroyed, isSyncing, pass, vStrokes, lStrokes,
                vTexts, lTexts, detached, reconnectAttempts, reconnectTimeout, timers,
                isIntentionalClose, isDisconnectedPermanently, isConnectedState>>

\* updateRoomTitle and SyncService.updateRoomTitle(roomId, title): a direct
\* send if connected, the room record and the log
updateRoomTitle(title, now) ==
    /\ wire' = send(ClientMessage("room_update", Nil, title))
    /\ lRooms' = touchRoom(lRooms, effect.roomId, title)
    /\ pending' = queueAction("room_update", Nil, title, now)
    /\ nextId' = nextId + 1
    /\ clock' = now
    /\ TitleFrame

\* clearAll: the two views are emptied and clear_all is sent if connected;
\* SyncService is not called
clearAll ==
    /\ vStrokes' = << >>
    /\ vTexts' = << >>
    /\ wire' = send(ClientMessage("clear_all", Nil, NoVal))
    /\ UNCHANGED <<lStrokes, lTexts, pending, nextId, clock>>
    /\ LocalFrame

\* ------------------------------------------------------------------------
\* Client: SyncService.sync, the replay pass
\* ------------------------------------------------------------------------

\* the sort of Collection.sortBy put upside down: latest first
RECURSIVE sortBy_Descending(_)
sortBy_Descending(q) ==
    IF q = << >>
    THEN << >>
    ELSE LET init == sortBy_Descending(SubSeq(q, 1, Len(q) - 1))
             e    == q[Len(q)]
         IN  SelectSeq(init, LAMBDA a : a.createdAt > e.createdAt)
             \o <<e>>
             \o SelectSeq(init, LAMBDA a : a.createdAt <= e.createdAt)

\* db.pendingActions.where('roomId').equals(roomId).sortBy('createdAt'): the
\* rows in primary-key order, then a stable sort on createdAt
RECURSIVE sortBy(_)
sortBy(q) ==
    IF q = << >>
    THEN << >>
    ELSE LET init == sortBy(SubSeq(q, 1, Len(q) - 1))
             e    == q[Len(q)]
         IN  SelectSeq(init, LAMBDA a : a.createdAt <= e.createdAt)
             \o <<e>>
             \o SelectSeq(init, LAMBDA a : a.createdAt > e.createdAt)

\* the switch of sync: the wire message of a pending action
WireOf(a) ==
    CASE a.type = "stroke_add"    -> ClientMessage("stroke_add", a.eid, a.val)
      [] a.type = "stroke_update" -> ClientMessage("stroke_update", a.eid, a.val)
      [] a.type = "text_add"      -> ClientMessage("text_add", a.eid, a.val)
      [] a.type = "text_update"   -> ClientMessage("text_update", a.eid, a.val)
      [] a.type = "text_delete"   -> ClientMessage("text_delete", a.eid, NoVal)
      [] a.type = "room_update"   -> ClientMessage("room_update", Nil, a.val)
      [] a.type = "clear_all"     -> ClientMessage("clear_all", Nil, NoVal)

\* the invocation record a call of sync gets: the first one not in use
FreeSlot == CHOOSE k \in Invocations :
                pass[k].pc = "idle" /\ \A j \in Invocations : j < k => pass[j].pc # "idle"

\* the entry of sync without its first line: the flag is set, never tested
sync_NoFlagTest ==
    /\ isSyncing' = TRUE
    /\ pass' = [pass EXCEPT ![FreeSlot] = [pc |-> "read", actions |-> << >>, idx |-> 0, conn |-> sock]]

\* the entry of sync: if (this.isSyncing) return; this.isSyncing = true
sync ==
    IF isSyncing
    THEN UNCHANGED <<isSyncing, pass>>
    ELSE /\ isSyncing' = TRUE
         /\ pass' = [pass EXCEPT ![FreeSlot] = [pc |-> "read", actions |-> << >>, idx |-> 0, conn |-> sock]]

\* the roomId argument of an invocation: the room of the connection whose
\* onConnect made the call
RoomOfPass(k) == clientRoom[pass[k].conn]

\* the rows of the log with a roomId: every local action of the model is made
\* in the view of room RoomId
RowsOfRoom(r) == IF r = RoomId THEN pending ELSE << >>

\* send of the client argument of an invocation: the client of the mounted
\* view, or the client of a view of another room, which was torn down and
\* has no socket
sendOf(k, m) == IF RoomOfPass(k) = effect.roomId THEN send(m) ELSE wire

\* what the steps of a pass leave alone
PassFrame == UNCHANGED <<hubVars, lStrokes, lTexts, nextId, clock, vStrokes, vTexts,
                         ws, sock, isDestroyed, tcVars>>

\* the read of the log returned
PassRead(k) ==
    /\ pass[k].pc = "read"
    /\ pass' = [pass EXCEPT ![k] = [pc |-> "loop",
                                    actions |-> sortBy(RowsOfRoom(RoomOfPass(k))),
                                    idx |-> 1, conn |-> pass[k].conn]]
    /\ UNCHANGED <<pending, wire, isSyncing>>
    /\ PassFrame

\* the read of the log threw: the finally block clears the flag
PassReadThrows(k) ==
    /\ pass[k].pc = "read"
    /\ pass' = [pass EXCEPT ![k] = IdlePass]
    /\ isSyncing' = FALSE
    /\ UNCHANGED <<pending, wire>>
    /\ PassFrame

\* one turn of the loop: the switch calls the client's method for the action,
\* then the entry is deleted from the log; the next turn follows a 10 ms delay
PassIter(k) ==
    /\ pass[k].pc = "loop"
    /\ pass[k].idx <= Len(pass[k].actions)
    /\ LET a == pass[k].actions[pass[k].idx] IN
          /\ wire' = sendOf(k, WireOf(a))
          /\ pending' = SelectSeq(pending, LAMBDA p : p.id # a.id)
    /\ pass' = [pass EXCEPT ![k].idx = pass[k].idx + 1]
    /\ UNCHANGED isSyncing
    /\ PassFrame

\* one turn of the loop in which the switch raises (the client's method, the
\* serialization of the payload): the inner catch logs the error; the entry is
\* not deleted, the delay is skipped and the for loop goes on to the next entry
PassIterThrows(k) ==
    /\ pass[k].pc = "loop"
    /\ pass[k].idx <= Len(pass[k].actions)
    /\ pass' = [pass EXCEPT ![k].idx = pass[k].idx + 1]
    /\ UNCHANGED <<pending, wire, isSyncing>>
    /\ PassFrame

\* the loop is over: the finally block clears the flag (the record keeps the
\* locals of the finished call until the next call takes it)
PassEnd(k) ==
    /\ pass[k].pc = "loop"
    /\ pass[k].idx > Len(pass[k].actions)
    /\ pass' = [pass EXCEPT ![k].pc = "idle"]
    /\ isSyncing' = FALSE
    /\ UNCHANGED <<pending, wire>>
    /\ PassFrame

\* ------------------------------------------------------------------------
\* Client: SyncService.getPendingState and the hook's message handlers
\* ------------------------------------------------------------------------

\* the loop of getPendingState without the delete calls: an id stays in every
\* set an action put it in
RECURSIVE PendingIds_NoRemove(_, _)
PendingIds_NoRemove(q, acc) ==
    IF q = << >>
    THEN acc
    ELSE LET a == Head(q) IN
         PendingIds_NoRemove(Tail(q),
            CASE a.type \in {"stroke_add", "stroke_update"} ->
                    [acc EXCEPT !.dirtyStrokeIds = SetAdd(@, a.eid)]
              [] a.type \in {"text_add", "text_update"} ->
                    [acc EXCEPT !.dirtyTextBlockIds = SetAdd(@, a.eid)]
              [] a.type = "text_delete" ->
                    [acc EXCEPT !.deletedTextBlockIds = SetAdd(@, a.eid)]
              [] OTHER -> acc)

\* the loop of getPendingState over the sorted log: the dirty and the deleted
\* ids, each a Set in insertion order
RECURSIVE PendingIds(_, _)
PendingIds(q, acc) ==
    IF q = << >>
    THEN acc
    ELSE LET a == Head(q) IN
         PendingIds(Tail(q),
            CASE a.type \in {"stroke_add", "stroke_update"} ->
                    [acc EXCEPT !.dirtyStrokeIds = SetAdd(@, a.eid),
                                !.deletedStrokeIds = SetDelete(@, a.eid)]
              [] a.type \in {"text_add", "text_update"} ->
                    [acc EXCEPT !.dirtyTextBlockIds = SetAdd(@, a.eid),
                                !.deletedTextBlockIds = SetDelete(@, a.eid)]
              [] a.type = "text_delete" ->
                    [acc EXCEPT !.deletedTextBlockIds = SetAdd(@, a.eid),
                                !.dirtyTextBlockIds = SetDelete(@, a.eid)]
              [] OTHER -> acc)

\* bulkGet and forEach(e => { if (e) pending.push(e) }): the cached entities
\* of the ids, skipping the ids the cache does not hold
RECURSIVE bulkGet(_, _)
bulkGet(cache, ids) ==
    IF ids = << >>
    THEN << >>
    ELSE (IF cache[Head(ids)] # NoVal
          THEN <<[id |-> Head(ids), val |-> cache[Head(ids)]]>>
          ELSE << >>) \o bulkGet(cache, Tail(ids))

\* getPendingState
getPendingState ==
    LET ids == PendingIds(sortBy(pending),
                 [dirtyStrokeIds |-> << >>, dirtyTextBlockIds |-> << >>,
                  deletedStrokeIds |-> << >>, deletedTextBlockIds |-> << >>])
    IN  [pendingStrokes      |-> bulkGet(lStrokes, ids.dirtyStrokeIds),
         pendingTextBlocks   |-> bulkGet(lTexts, ids.dirtyTextBlockIds),
         deletedStrokeIds    |-> ids.deletedStrokeIds,
         deletedTextBlockIds |-> ids.deletedTextBlockIds]

\* the array of entities of a room state (id -> content) on the wire
RECURSIVE Rows(_, _)
Rows(f, ids) ==
    IF ids = {}
    THEN << >>
    ELSE LET i == CHOOSE x \in ids : TRUE IN
         (IF f[i] # NoVal THEN <<[id |-> i, val |-> f[i]]>> ELSE << >>) \o Rows(f, ids \ {i})

\* forEach(e => map.set(e.id, e)) over an array
RECURSIVE SetAll(_, _)
SetAll(view, q) ==
    IF q = << >> THEN view ELSE SetAll(MapSet(view, Head(q).id, Head(q).val), Tail(q))

\* the merge of handleRoomState that takes the snapshot alone
Merge_ServerOnly(server, deletedIds, local) == SetAll(<< >>, server)

\* the merge of handleRoomState for one kind of entity: the snapshot without
\* the deleted ids, then the pending local entities over it
Merge(server, deletedIds, local) ==
    SetAll(SetAll(<< >>,
                  SelectSeq(server, LAMBDA e : \A i \in 1..Len(deletedIds) : deletedIds[i] # e.id)),
           local)

\* the cache after forEach(e => SyncService.saveStroke(e, true)) over an array
RECURSIVE PutAll(_, _)
PutAll(cache, q) ==
    IF q = << >> THEN cache ELSE PutAll([cache EXCEPT ![Head(q).id] = Head(q).val], Tail(q))

\* handleRoomState: the merged view, then the snapshot is saved to the cache
handleRoomState(roomState) ==
    LET p  == getPendingState
        ss == Rows(roomState.strokes, StrokeIds)
        ts == Rows(roomState.texts, TextIds)
    IN  /\ vStrokes' = Merge(ss, p.deletedStrokeIds, p.pendingStrokes)
        /\ vTexts' = Merge(ts, p.deletedTextBlockIds, p.pendingTextBlocks)
        /\ lStrokes' = PutAll(lStrokes, ss)
        /\ lTexts' = PutAll(lTexts, ts)

\* handleMessage: the switch on the type of a message of the server
handleMessage(m) ==
    CASE m.type = "room_state" -> handleRoomState(m.roomState)
      [] m.type = "stroke_add" ->
            /\ vStrokes' = AddIfAbsent(vStrokes, m.id, m.val)
            /\ lStrokes' = [lStrokes EXCEPT ![m.id] = m.val]
            /\ UNCHANGED <<vTexts, lTexts>>
      [] m.type = "stroke_update" ->
            /\ vStrokes' = MapVal(vStrokes, m.id, m.val)
            /\ lStrokes' = IF lStrokes[m.id] # NoVal
                           THEN [lStrokes EXCEPT ![m.id] = m.val] ELSE lStrokes
            /\ UNCHANGED <<vTexts, lTexts>>
      [] m.type = "text_add" ->
            /\ vTexts' = AddIfAbsent(vTexts, m.id, m.val)
            /\ lTexts' = [lTexts EXCEPT ![m.id] = m.val]
            /\ UNCHANGED <<vStrokes, lStrokes>>
      [] m.type = "text_update" ->
            /\ vTexts' = MapVal(vTexts, m.id, m.val)
            /\ lTexts' = IF lTexts[m.id] # NoVal
                         THEN [lTexts EXCEPT ![m.id] = m.val] ELSE lTexts
            /\ UNCHANGED <<vStrokes, lStrokes>>
      [] m.type = "text_delete" ->
            /\ vTexts' = Without(vTexts, m.id)
            /\ lTexts' = [lTexts EXCEPT ![m.id] = NoVal]
            /\ UNCHANGED <<vStrokes, lStrokes>>
      [] m.type = "clear_all" ->
            /\ vStrokes' = << >>
            /\ vTexts' = << >>
            /\ UNCHANGED <<lStrokes, lTexts>>
      [] OTHER -> UNCHANGED <<vStrokes, vTexts, lStrokes, lTexts>>

\* ------------------------------------------------------------------------
\* Client: the socket of WebSocketClient; the frames between the two sides
\* ------------------------------------------------------------------------

\* what the socket's events leave alone
SocketFrame == UNCHANGED <<lStrokes, lTexts, pending, nextId, clock, vStrokes, vTexts, wire>>

\* the id window.setTimeout returns: one no pending timeout has
FreshTimer ==
    CHOOSE t \in 1..(Len(timers) + 1) : \A i \in 1..Len(timers) : timers[i] # t

\* clearTimeout(id) on the pending timeouts ts
clearTimeout(ts, id) == SelectSeq(ts, LAMBDA t : t # id)

\* the readyState of a socket the client created, "none" if it did not
readyState(s) == IF s = sock /\ ws # "none" THEN ws ELSE detached[s]

\* connect() without the test for CONNECTING: it returns early only if the
\* socket is OPEN
connectFrom_OpenTestOnly(ts) ==
    /\ IF isDestroyed \/ ws = "open"
       THEN /\ timers' = ts
            /\ UNCHANGED <<hubVars, ws, sock, detached, reconnectTimeout>>
       ELSE /\ timers' = clearTimeout(ts, reconnectTimeout)
            /\ reconnectTimeout' = NoTimer
            /\ detached' = IF ws = "none" THEN detached ELSE [detached EXCEPT ![sock] = ws]
            /\ ws' = "connecting"
            /\ sock' = nextClient
            /\ WebSocketHandler(nextClient, effect.roomId)
    /\ UNCHANGED <<isDestroyed, isIntentionalClose, reconnectAttempts,
                   isDisconnectedPermanently, isConnectedState, lRooms,
                   isSyncing, pass>>
    /\ SocketFrame

\* connect(), called with ts the pending timeouts: it returns at once if the
\* client is destroyed or its socket is OPEN or CONNECTING; otherwise it clears
\* the pending reconnect timeout and creates a new WebSocket for the room's
\* URL, which the server's WebSocketHandler accepts
connectFrom(ts) ==
    /\ IF isDestroyed \/ ws \in {"open", "connecting"}
       THEN /\ timers' = ts
            /\ UNCHANGED <<hubVars, ws, sock, detached, reconnectTimeout>>
       ELSE /\ timers' = clearTimeout(ts, reconnectTimeout)
            /\ reconnectTimeout' = NoTimer
            /\ detached' = IF ws = "none" THEN detached ELSE [detached EXCEPT ![sock] = ws]
            /\ ws' = "connecting"
            /\ sock' = nextClient
            /\ WebSocketHandler(nextClient, effect.roomId)
    /\ UNCHANGED <<isDestroyed, isIntentionalClose, reconnectAttempts,
                   isDisconnectedPermanently, isConnectedState, lRooms,
                   isSyncing, pass>>
    /\ SocketFrame

\* connect() called by the hook: the first connect of the effect, or a
\* visibilitychange to visible
connect == connectFrom(timers)

\* the timeout set by attemptReconnect fires and calls connect(); timeouts of
\* the same delay fire in the order they were set
reconnectTimer ==
    /\ timers # << >>
    /\ connectFrom(Tail(timers))

\* ws.onopen: a destroyed client closes the socket; otherwise the attempts are
\* reset and onConnect sets isConnected and calls SyncService.sync
onopen ==
    /\ ws = "connecting"
    /\ IF isDestroyed
       THEN /\ ws' = "closing"
            /\ UNCHANGED <<reconnectAttempts, isConnectedState, isSyncing, pass>>
       ELSE /\ ws' = "open"
            /\ reconnectAttempts' = 0
            /\ isConnectedState' = TRUE
            /\ sync
    /\ UNCHANGED <<hubVars, sock, isDestroyed, detached, reconnectTimeout, timers,
                   isIntentionalClose, isDisconnectedPermanently, lRooms>>
    /\ SocketFrame

\* attemptReconnect without its test of the cap
attemptReconnect_NoCap ==
    IF isDestroyed
    THEN UNCHANGED <<reconnectAttempts, reconnectTimeout, timers>>
    ELSE /\ reconnectAttempts' = reconnectAttempts + 1
         /\ reconnectTimeout' = FreshTimer
         /\ timers' = Append(timers, FreshTimer)

\* attemptReconnect: nothing if destroyed or the cap is reached (a line is
\* logged); otherwise one more attempt is counted and connect() is scheduled
attemptReconnect ==
    IF isDestroyed \/ reconnectAttempts >= MaxReconnectAttempts
    THEN UNCHANGED <<reconnectAttempts, reconnectTimeout, timers>>
    ELSE /\ reconnectAttempts' = reconnectAttempts + 1
         /\ reconnectTimeout' = FreshTimer
         /\ timers' = Append(timers, FreshTimer)

\* the body of ws.onclose: nothing if destroyed; onDisconnect, and
\* attemptReconnect unless the close was intentional
oncloseHandler ==
    /\ IF isDestroyed \/ isIntentionalClose
       THEN UNCHANGED <<reconnectAttempts, reconnectTimeout, timers>>
       ELSE attemptReconnect
    /\ isConnectedState' = (isDestroyed /\ isConnectedState)
    /\ UNCHANGED <<hubVars, sock, isDestroyed, isIntentionalClose,
                   isDisconnectedPermanently, lRooms, isSyncing, pass>>
    /\ SocketFrame

\* the closing handshake of the client's socket starts (the server closes, the
\* network fails): readyState is CLOSING until the close event
closing ==
    /\ ws = "open"
    /\ ws' = "closing"
    /\ UNCHANGED <<hubVars, sock, isDestroyed, isSyncing, pass, tcVars>>
    /\ SocketFrame

\* the close event of the client's socket (ws.onclose): the connection
\* dropped or could not be made
onclose ==
    /\ ws \in {"open", "connecting", "closing"}
    /\ ws' = "closed"
    /\ UNCHANGED detached
    /\ oncloseHandler

\* the close event of a socket the client no longer refers to
oncloseDetached(s) ==
    /\ detached[s] \in {"open", "connecting", "closing"}
    /\ detached' = [detached EXCEPT ![s] = "closed"]
    /\ UNCHANGED ws
    /\ oncloseHandler

\* disconnect() that leaves isDestroyed as it is
disconnect_NotDestroyed ==
    /\ ~isIntentionalClose
    /\ ws # "none"
    /\ isIntentionalClose' = TRUE
    /\ timers' = clearTimeout(timers, reconnectTimeout)
    /\ detached' = [detached EXCEPT ![sock] = IF ws = "closed" THEN "closed" ELSE "closing"]
    /\ ws' = "none"
    /\ UNCHANGED <<hubVars, sock, isDestroyed, reconnectAttempts, reconnectTimeout,
                   isDisconnectedPermanently, isConnectedState, lRooms,
                   isSyncing, pass>>
    /\ SocketFrame

\* disconnect(), called once by the cleanup of the hook's effect (view
\* teardown) if connect() was called: the client is destroyed, the pending
\* reconnect timeout cleared, the socket closed and dropped
disconnect ==
    /\ ~isIntentionalClose
    /\ ws # "none"
    /\ isDestroyed' = TRUE
    /\ isIntentionalClose' = TRUE
    /\ timers' = clearTimeout(timers, reconnectTimeout)
    /\ detached' = [detached EXCEPT ![sock] = IF ws = "closed" THEN "closed" ELSE "closing"]
    /\ ws' = "none"
    /\ UNCHANGED <<hubVars, sock, reconnectAttempts, reconnectTimeout,
                   isDisconnectedPermanently, isConnectedState, lRooms,
                   isSyncing, pass>>
    /\ SocketFrame

\* the timeout of the hook's effect if the cleanup neither cleared it nor set
\* isCancelled: it fires after the teardown too
debounce_NoCancelTest ==
    /\ ~effect.isConnected
    /\ connect
    /\ effect' = [effect EXCEPT !.isConnected = TRUE, !.wsRef = TRUE]

\* the timeout of the hook's effect (100 ms after the view is mounted) fires,
\* unless the cleanup cleared it: if (!isCancelled) { client.connect();
\* wsRef.current = client; isConnected = true }
debounce ==
    /\ ~effect.isCancelled
    /\ ~effect.isConnected
    /\ connect
    /\ effect' = [effect EXCEPT !.isConnected = TRUE, !.wsRef = TRUE]

\* handleVisibilityChange, while the listener is registered, for a change to
\* visible: wsRef.current.connect() if wsRef.current is set
handleVisibilityChange ==
    /\ ~effect.isCancelled
    /\ effect.wsRef
    /\ connect
    /\ UNCHANGED effect

\* the cleanup of the hook's effect (the view is torn down): isCancelled is
\* set, the listener removed and the timeout cleared; the client is
\* disconnected if the timeout had fired
cleanup ==
    /\ ~effect.isCancelled
    /\ IF effect.isConnected /\ effect.wsRef
       THEN /\ disconnect
            /\ effect' = [effect EXCEPT !.isCancelled = TRUE, !.wsRef = FALSE]
       ELSE /\ effect' = [effect EXCEPT !.isCancelled = TRUE]
            /\ UNCHANGED <<hubVars, lStrokes, lTexts, pending, nextId, clock, vStrokes,
                           vTexts, ws, sock, isDestroyed, wire, isSyncing, pass, tcVars>>

\* the server's reader of connection c decoded the next frame and dispatches it
ReadPump(c, fail) ==
    /\ wire[c] # << >>
    /\ HandleMessage(c, Head(wire[c]), fail)
    /\ wire' = [wire EXCEPT ![c] = Tail(wire[c])]
    /\ UNCHANGED <<msgCount, lStrokes, lTexts, pending, nextId, clock, vStrokes, vTexts,
                   ws, sock, isDestroyed, isSyncing, pass, tcVars>>

\* the server's writer of connection c writes the next message; ws.onmessage
\* hands it to the hook's handleMessage unless the client is destroyed
onmessage(c) ==
    /\ WritePump(c)
    /\ IF c = sock /\ ws = "open" /\ ~isDestroyed
       THEN handleMessage(Head(Send[c]))
       ELSE UNCHANGED <<vStrokes, vTexts, lStrokes, lTexts>>
    /\ UNCHANGED <<pending, nextId, clock, ws, sock, isDestroyed, wire, isSyncing, pass, tcVars>>

\* ------------------------------------------------------------------------
\* Spec: the Hub
\* ------------------------------------------------------------------------
\* the connections accepted so far
Accepted == 1..(nextClient - 1)

\* In Spec the sendRoomState goroutines started by registerClient are not
\* scheduled: they stay before their fetch.
Next ==
    \/ /\ nextClient <= MaxClients
       /\ \E r \in RoomIds : WebSocketHandler(nextClient, r)
       /\ UNCHANGED cliVars
    \/ \E c \in Accepted : Unregister(c) /\ UNCHANGED cliVars
    \/ \E c \in Accepted : WritePump(c) /\ UNCHANGED cliVars
    \/ \E c \in Accepted, m \in ClientMsgs, fail \in BOOLEAN :
          Dispatch(c, m, fail) /\ UNCHANGED cliVars
    \/ \E c \in Accepted : HandlerReturn(c) /\ UNCHANGED cliVars

Spec == Init /\ [][Next]_vars

\* ------------------------------------------------------------------------
\* Claims on the Hub, checked under Spec
\* ------------------------------------------------------------------------

\* the connections that registered and have not been unregistered
Registered == {c \in ClientIds : pc[c] \in {"read", "handle"}}

\* C1: the connection set of a room is the set of connections that registered
\* for it and have not unregistered, and the room has an entry in the map iff
\* that set is not empty.
C1_Membership ==
    \A r \in RoomIds :
        /\ RoomOf(Rooms, r) = {c \in Registered : clientRoom[c] = r}
        /\ r \in DOMAIN Rooms <=> {c \in Registered : clientRoom[c] = r} # {}

\* C1 witness: a room lost its entry with its last connection while another
\* room keeps its entry
C1_Witness ==
    \E c \in ClientIds :
        /\ pc[c] = "closed"
        /\ clientRoom[c] \notin DOMAIN Rooms
        /\ DOMAIN Rooms # {}

\* the message a step appended to the channel of d, if any
Gained(d) ==
    IF Len(Send'[d]) > Len(Send[d]) THEN {Send'[d][Len(Send'[d])]} ELSE {}

\* C2: a message of a mutating type is enqueued on another connection only by
\* a handler whose persistence call returned success; a handler whose
\* persistence call failed enqueues nothing on any other connection.
C2_PersistThenBroadcast ==
    [][\A c \in ClientIds :
         /\ (pc[c] = "handle" /\ pc'[c] = "read" /\ cur[c].err
                /\ cur[c].msg.type \in Mutating)
              => \A d \in ClientIds \ {c} : Send'[d] = Send[d]
         /\ \A d \in ClientIds \ {c} : \A m \in Gained(d) :
              (m.type \in Mutating /\ m.pid = c)
              => (pc[c] = "handle" /\ ~cur[c].err /\ cur[c].msg.type = m.type)]_vars

\* C2 witness: a handler returned after a failed persistence call (its error
\* reply is queued on the sender) and a roommate's queue is empty
C2_Witness ==
    \E c \in ClientIds, d \in ClientIds :
        /\ c # d /\ clientRoom[c] \in DOMAIN Rooms /\ {c, d} \subseteq Rooms[clientRoom[c]]
        /\ \E i \in 1..Len(Send[c]) : Send[c][i].type = "error"
        /\ Send[d] = << >>

\* the channel of d after a broadcast of m to the connections of room, except excl
Delivered(d, room, excl, m) ==
    IF d \in room /\ d # excl /\ Len(Send[d]) < SendCap
    THEN Append(Send[d], m)
    ELSE Send[d]

\* C3: a broadcast never enqueues on the excluded connection and enqueues
\* exactly once on every other connection of the room whose queue is not full
\* (the broadcasts of the handlers, of register and of unregister).
C3_Broadcast ==
    [][\A c \in ClientIds :
         /\ (pc[c] = "handle" /\ pc'[c] = "read" /\ ~cur[c].err
                /\ cur[c].msg.type # "clear_all")
              => \A d \in ClientIds :
                    Send'[d] = Delivered(d, RoomOf(Rooms, clientRoom[c]), c,
                                 ServerMessage(cur[c].msg.type, c, cur[c].msg.id, cur[c].msg.val))
         /\ (pc[c] = "none" /\ pc'[c] = "read")
              => \A d \in ClientIds :
                    Send'[d] = Delivered(d, Rooms'[clientRoom'[c]], c,
                                 ServerMessage("participant_join", c, clientColor'[c], NoVal))
         /\ (pc[c] = "read" /\ pc'[c] = "closed")
              => \A d \in ClientIds :
                    Send'[d] = Delivered(d, RoomOf(Rooms, clientRoom[c]) \ {c}, NoClient,
                                 ServerMessage("participant_leave", c, Nil, NoVal))]_vars

\* a handler of connection c returns after its persistence call for a message
\* of type t failed
FailedReturn(c, t) ==
    pc[c] = "handle" /\ pc'[c] = "read" /\ cur[c].err /\ cur[c].msg.type = t

\* the reader of connection c leaves the persistence call for a message of
\* type t with an error
FailedPersist(c, t) ==
    pc[c] = "read" /\ pc'[c] = "handle" /\ cur'[c].err /\ cur'[c].msg.type = t

ErrorMessage == ServerMessage("error", NoClient, Nil, NoVal)

EntityTypes == Mutating \ {"clear_all"}

\* C12: when the persistence call fails for stroke_add, stroke_update,
\* text_add, text_update or text_delete, a typed error message is enqueued on
\* the sender's queue (a full queue aside) and on no other connection's queue.
C12_ErrorToSender ==
    [][\A c \in ClientIds : \A t \in EntityTypes :
         FailedReturn(c, t) =>
            /\ Send'[c] = IF Len(Send[c]) < SendCap
                          THEN Append(Send[c], ErrorMessage)
                          ELSE Send[c]
            /\ \A d \in ClientIds \ {c} : Send'[d] = Send[d]]_vars

\* C12, the part that holds: after a failed persistence call nothing is
\* enqueued on another connection, and the sender gets an error or nothing
C12_NoOtherQueue ==
    [][\A c \in ClientIds : \A t \in EntityTypes :
         FailedReturn(c, t) =>
            /\ Send'[c] \in {Send[c], Append(Send[c], ErrorMessage)}
            /\ \A d \in ClientIds \ {c} : Send'[d] = Send[d]]_vars

\* C12: a handler of stroke_update, text_update or text_delete is about to
\* return after a failed persistence call and the sender's queue has room
C12_Silent ==
    \E c \in ClientIds :
        /\ pc[c] = "handle" /\ cur[c].err
        /\ cur[c].msg.type \in {"stroke_update", "text_update", "text_delete"}
        /\ Len(Send[c]) < SendCap
        /\ HandlerSends(c) = Send

\* a handler of connection c returns after a successful persistence call (or
\* none, for cursor_move) and broadcasts
Broadcasts(c) == pc[c] = "handle" /\ pc'[c] = "read" /\ ~cur[c].err

\* the connections a handler of c broadcasts to: the room, without the sender
\* unless the message is clear_all
Recipients(c) ==
    IF cur[c].msg.type = "clear_all"
    THEN RoomOf(Rooms, clientRoom[c])
    ELSE RoomOf(Rooms, clientRoom[c]) \ {c}

\* C14: an outbound queue never holds more than its bound; when a broadcast
\* finds a recipient's queue full the message is discarded for that recipient
\* alone: its queue is unchanged, every recipient with room gets the message,
\* and the broadcasting handler can always take its step (it does not block).
C14_BoundedQueue ==
    [][/\ \A d \in ClientIds : Len(Send'[d]) <= SendCap
       /\ \A c \in ClientIds :
            /\ pc[c] = "handle" => ENABLED HandlerReturn(c)
            /\ Broadcasts(c) =>
                  \A d \in Recipients(c) :
                     IF Len(Send[d]) = SendCap
                     THEN Send'[d] = Send[d]
                     ELSE /\ Len(Send'[d]) = Len(Send[d]) + 1
                          /\ SubSeq(Send'[d], 1, Len(Send[d])) = Send[d]
                          /\ Send'[d][Len(Send'[d])].type = cur[c].msg.type
                          /\ Send'[d][Len(Send'[d])].pid = c]_vars

\* C14 witness: a broadcast of c went to d while the queue of e, full with the
\* two join messages it held before, is as it was
C14_Witness ==
    \E c \in ClientIds, d \in ClientIds, e \in ClientIds :
        /\ c # d /\ c # e /\ d # e
        /\ clientRoom[c] \in DOMAIN Rooms /\ {c, d, e} \subseteq Rooms[clientRoom[c]]
        /\ msgCount = 1 /\ pc[c] = "read"
        /\ Send[d] # << >> /\ Send[d][Len(Send[d])].type \in Handled
        /\ Send[d][Len(Send[d])].pid = c
        /\ Len(Send[e]) = SendCap
        /\ \A i \in 1..SendCap : Send[e][i].type = "participant_join"

\* the kinds of message the spec calls ephemeral: cursor moves and the live
\* preview of a stroke in progress
Ephemeral == {"cursor_move", "stroke_update"}

\* C15: the messages dropped because a recipient's queue is full are cursor
\* moves and stroke previews; messages of other kinds are never dropped by
\* backpressure.
C15_EphemeralOnly ==
    [][\A c \in ClientIds :
         (Broadcasts(c) /\ \E d \in Recipients(c) : Len(Send[d]) = SendCap)
            => cur[c].msg.type \in Ephemeral]_vars

\* C15: a handler persisted a stroke_add, text_add, text_update, text_delete
\* or clear_all and is about to broadcast it to a room with a full queue
C15_DurableDropped ==
    \E c \in ClientIds :
        /\ pc[c] = "handle" /\ ~cur[c].err
        /\ cur[c].msg.type \in Mutating \ Ephemeral
        /\ \E d \in Recipients(c) :
              /\ Len(Send[d]) = SendCap
              /\ HandlerSends(c)[d] = Send[d]

\* C23: on a successful clear_all the clear_all message is enqueued on every
\* connection of the room whose queue is not full, the sender included; the
\* broadcast of any other client message type is never enqueued on its sender.
C23_ClearAllIncludesSender ==
    [][\A c \in ClientIds :
         /\ (Broadcasts(c) /\ cur[c].msg.type = "clear_all") =>
               \A d \in ClientIds :
                  Send'[d] = IF d \in RoomOf(Rooms, clientRoom[c]) /\ Len(Send[d]) < SendCap
                             THEN Append(Send[d], ServerMessage("clear_all", c, Nil, NoVal))
                             ELSE Send[d]
         /\ (Broadcasts(c) /\ cur[c].msg.type # "clear_all") => Send'[c] = Send[c]
         /\ \A m \in Gained(c) :
               (m.type \in ClientTypes /\ m.pid = c) => m.type = "clear_all"]_vars

\* C23 witness: the clear_all of c is queued on c itself and on a roommate,
\* and not on a second roommate whose queue was full
C23_Witness ==
    \E c \in ClientIds, d \in ClientIds, e \in ClientIds :
        /\ c # d /\ c # e /\ d # e
        /\ clientRoom[c] \in DOMAIN Rooms /\ {c, d, e} \subseteq Rooms[clientRoom[c]]
        /\ Send[c] # << >> /\ Send[c][Len(Send[c])] = ServerMessage("clear_all", c, Nil, NoVal)
        /\ Send[d] # << >> /\ Send[d][Len(Send[d])] = ServerMessage("clear_all", c, Nil, NoVal)
        /\ Len(Send[e]) = SendCap
        /\ \A i \in 1..SendCap : Send[e][i].type = "participant_join"

\* a message lacking a required field: stroke_add without stroke,
\* stroke_update without id or points, text_add without text block,
\* text_update without id or patch, text_delete without id
Incomplete(m) ==
    \/ m.type \in {"stroke_add", "text_add"} /\ m.id = Nil
    \/ m.type \in {"stroke_update", "text_update"} /\ (m.id = Nil \/ m.val = NoVal)
    \/ m.type = "text_delete" /\ m.id = Nil

\* the types of the spec's dispatch table
Recognized ==
    {"stroke_add", "stroke_update", "text_add", "text_update", "text_delete",
     "cursor_move", "clear_all"}

From(q, c) == {i \in 1..Len(q) : q[i].type \in ClientTypes /\ q[i].pid = c}

\* C3 witness: three connections of one room; a broadcast of c is queued on d,
\* not on c, and not on e, whose queue is full
C3_Witness ==
    \E c \in ClientIds, d \in ClientIds, e \in ClientIds :
        /\ c # d /\ c # e /\ d # e
        /\ clientRoom[c] \in DOMAIN Rooms /\ {c, d, e} \subseteq Rooms[clientRoom[c]]
        /\ From(Send[d], c) # {}
        /\ From(Send[c], c) = {}
        /\ From(Send[e], c) = {} /\ Len(Send[e]) = SendCap

\* ------------------------------------------------------------------------
\* ColorSpec: register and unregister with ColorClients connections in one
\* room.  The writers and the sendRoomState goroutines are scheduled between
\* the Hub's operations, lowest connection first: the color assignment reads
\* the membership map alone.
\* ------------------------------------------------------------------------
Unsettled(c) == Send[c] # << >> \/ srs[c] \in {"fetch", "check", "send"}

Settled == \A c \in ClientIds : ~Unsettled(c)

FirstUnsettled(c) == Unsettled(c) /\ \A d \in ClientIds : d < c => ~Unsettled(d)

\* C10: register assigns palette[n mod 8], n the size of the room's set
\* before the insertion; hence the k-th (0-indexed) connection to join a room
\* with no unregister since the room was last empty has palette[k mod 8], and
\* the first connection of a room without an entry has palette[0].
KthJoinerColor ==
    \A r \in DOMAIN Rooms :
        ~leftSince[r] =>
            \A c \in Rooms[r] :
                clientColor[c] = Colors[(Cardinality({d \in Rooms[r] : d < c}) % PaletteSize) + 1]

RegisterColor ==
    \A c \in ClientIds :
        (pc[c] = "none" /\ pc'[c] = "read") =>
            /\ clientColor'[c] =
                 Colors[(Cardinality(RoomOf(Rooms, clientRoom'[c])) % PaletteSize) + 1]
            /\ clientRoom'[c] \notin DOMAIN Rooms => clientColor'[c] = Colors[1]

C10_ColorAssignment == [][RegisterColor /\ KthJoinerColor']_vars

\* C10 witness: the ninth connection of a room nobody left has palette[0]
C10_Witness ==
    \E c \in ClientIds :
        /\ "r1" \in DOMAIN Rooms /\ c \in Rooms["r1"] /\ ~leftSince["r1"]
        /\ Cardinality({d \in Rooms["r1"] : d < c}) = PaletteSize
        /\ clientColor[c] = Colors[1]

ColorNext ==
    \/ /\ nextClient <= ColorClients /\ Settled /\ WebSocketHandler(nextClient, "r1")
       /\ UNCHANGED cliVars
    \/ /\ Settled
       /\ Cardinality({d \in ClientIds : pc[d] = "closed"}) < MaxLeaves
       /\ \E c \in ClientIds : Unregister(c)
       /\ UNCHANGED cliVars
    \/ \E c \in ClientIds : FirstUnsettled(c) /\ WritePump(c) /\ UNCHANGED cliVars
    \/ \E c \in ClientIds : FirstUnsettled(c) /\ SrsFetch(c, TRUE) /\ UNCHANGED cliVars
    \/ \E c \in ClientIds : FirstUnsettled(c) /\ SrsCheck(c) /\ UNCHANGED cliVars
    \/ \E c \in ClientIds : FirstUnsettled(c) /\ SrsSend(c) /\ UNCHANGED cliVars

ColorSpec == Init /\ [][ColorNext]_vars

\* ------------------------------------------------------------------------
\* RaceSpec: register, unregister and the sendRoomState goroutines with
\* RaceClients connections, every interleaving of the goroutine's three
\* steps (fetch, membership check under the read lock, send after the lock
\* was released) with the Hub's operations and the writers.
\* ------------------------------------------------------------------------
RaceNext ==
    \/ /\ nextClient <= RaceClients
       /\ \E r \in RoomIds : WebSocketHandler(nextClient, r)
       /\ UNCHANGED cliVars
    \/ \E c \in Accepted : Unregister(c) /\ UNCHANGED cliVars
    \/ \E c \in Accepted : WritePump(c) /\ UNCHANGED cliVars
    \/ \E c \in Accepted, ok \in BOOLEAN : SrsFetch(c, ok) /\ UNCHANGED cliVars
    \/ \E c \in Accepted : SrsCheck(c) /\ UNCHANGED cliVars
    \/ \E c \in Accepted : SrsSend(c) /\ UNCHANGED cliVars

RaceSpec == Init /\ [][RaceNext]_vars

\* C13: under every interleaving of sendRoomState with the connection's
\* unregister, the Hub never attempts to enqueue room_state on a connection
\* whose outbound queue has been closed, and if the connection is not in the
\* room's set when the fetch has completed, nothing is sent to it.
C13_NoSendOnClosed ==
    [][\A c \in ClientIds :
         /\ (srs[c] = "send" /\ srs'[c] = "done") => ~sendClosed[c]
         /\ (srs[c] = "check" /\ srs'[c] # "check" /\ c \notin RoomOf(Rooms, clientRoom[c]))
              => srs'[c] = "done" /\ Send' = Send]_vars

\* C13, the part that holds: a goroutine whose membership check finds the
\* connection gone ends without a send, and a closed queue never gets a message
C13_Recheck ==
    [][\A c \in ClientIds :
         /\ (srs[c] = "check" /\ srs'[c] # "check" /\ c \notin RoomOf(Rooms, clientRoom[c]))
              => srs'[c] = "done" /\ Send' = Send
         /\ sendClosed[c] => Len(Send'[c]) <= Len(Send[c])]_vars

\* C13: the goroutine of a connection passed its membership check and is
\* about to send, and the connection's queue has been closed since
C13_SendOnClosed ==
    \E c \in ClientIds : srs[c] = "send" /\ sendClosed[c] /\ pc[c] = "closed"

\* the room_state messages waiting in the queue of a connection
RoomStatesFor(c) == {Send[c][i] : i \in {j \in 1..Len(Send[c]) : Send[c][j].type = "room_state"}}

\* C31: every room_state enqueued for a newly registered connection carries
\* the strokes and text blocks the store held for the room at some instant
\* between the registration and the enqueue, also when the store read fails.
\* No step of RaceSpec writes to the store: the store of every such instant
\* is the present one
C31_SnapshotOfStore ==
    \A c \in ClientIds :
        \A m \in RoomStatesFor(c) : m.roomState = GetRoomState(clientRoom[c])

\* C31, what holds: a room_state carries the store's rows of the room or, if
\* the read failed, no row at all
C31_SnapshotOrEmpty ==
    \A c \in ClientIds :
        \A m \in RoomStatesFor(c) :
            m.roomState \in {GetRoomState(clientRoom[c]), EmptyRoomState}

\* C31 witness: a room_state without a row is queued for a connection of a
\* room for which the store holds a stroke and a text block
C31_EmptySnapshot ==
    \E c \in ClientIds :
        /\ clientRoom[c] = "r1" /\ c \in RoomOf(Rooms, "r1")
        /\ dbStrokes["sB"] = StoredStroke /\ dbTexts["tA"] = StoredText
        /\ \E m \in RoomStatesFor(c) : m.roomState = EmptyRoomState

\* ------------------------------------------------------------------------
\* OrderSpec: OrderClients connections of one room whose peers send frames;
\* the readers, the handlers and the writers run in every interleaving, the
\* store may fail.  The frames are numbered as the server receives them and
\* each carries its number as its content, so that the messages queued for a
\* recipient tell the order of the frames that caused them.
\* ------------------------------------------------------------------------

\* the frames of the peers, before they are numbered
OrderMsgs ==
    {ClientMessage("stroke_add", "sA", NoVal), ClientMessage("stroke_update", "sA", NoVal),
     ClientMessage("text_update", "tA", NoVal), ClientMessage("cursor_move", Nil, NoVal)}

\* the socket of connection c received a frame of its peer
Frame(c, m) ==
    /\ msgCount < MaxFrames
    /\ pc[c] \in {"read", "handle"}
    /\ msgCount' = msgCount + 1
    /\ wire' = [wire EXCEPT ![c] = Append(wire[c], [m EXCEPT !.val = msgCount + 1])]
    /\ UNCHANGED <<Rooms, clientRoom, clientColor, Send, sendClosed, nextClient, pc, cur,
                   srs, snap, dbStrokes, dbTexts, leftSince>>
    /\ UNCHANGED <<lStrokes, lTexts, pending, nextId, clock, vStrokes, vTexts, ws, sock,
                   isDestroyed, isSyncing, pass, lockVars, base, clean, effect, tcVars>>

OrderNext ==
    \/ /\ nextClient <= OrderClients
       /\ WebSocketHandler(nextClient, "r1")
       /\ UNCHANGED cliVars
    \/ \E c \in Accepted, m \in OrderMsgs : Frame(c, m)
    \/ \E c \in Accepted, fail \in BOOLEAN : ReadPump(c, fail) /\ UNCHANGED <<lockVars, base, clean, effect>>
    \/ \E c \in Accepted : HandlerReturn(c) /\ UNCHANGED cliVars
    \/ \E c \in Accepted : WritePump(c) /\ UNCHANGED cliVars

OrderSpec == Init /\ [][OrderNext]_vars

\* the messages queued for a recipient that one sender's frames caused are in
\* the order of the frames
InOrder ==
    \A d \in ClientIds : \A i \in 1..Len(Send[d]), j \in 1..Len(Send[d]) :
        (i < j /\ Send[d][i].type \in ClientTypes /\ Send[d][j].type \in ClientTypes
               /\ Send[d][i].pid = Send[d][j].pid)
        => Send[d][i].val < Send[d][j].val

\* C22: for one connection, the store write and the broadcast of message N
\* are over (or have failed) before message N+1 is dispatched: a frame is
\* taken off a connection only while no handler of that connection is in
\* progress, and frames are taken in the order received; hence the broadcasts
\* one sender caused are queued for a recipient in the order of its frames.
C22_SequentialDispatch ==
    [][/\ \A c \in ClientIds :
            wire'[c] # wire[c] =>
               \/ /\ wire[c] # << >> /\ wire'[c] = Tail(wire[c])
                  /\ pc[c] = "read" /\ cur[c] = NoRec
                  /\ \A i \in 1..Len(wire[c]) : Head(wire[c]).val <= wire[c][i].val
               \/ /\ Len(wire'[c]) = Len(wire[c]) + 1
                  /\ SubSeq(wire'[c], 1, Len(wire[c])) = wire[c]
       /\ InOrder']_vars

\* C22 witness: two frames of c were handled one after the other and their
\* broadcasts are queued for d, the earlier first
C22_Witness ==
    \E c \in ClientIds, d \in ClientIds :
        /\ c # d /\ Len(Send[d]) = 2
        /\ Send[d][1].type \in ClientTypes /\ Send[d][1].pid = c
        /\ Send[d][2].type \in ClientTypes /\ Send[d][2].pid = c
        /\ Send[d][1].val < Send[d][2].val
        /\ pc[c] = "read" /\ wire[c] = << >>

\* ------------------------------------------------------------------------
\* ConnSpec: the life of one WebSocketClient: connect() called by the hook
\* (the first connect, every visibilitychange to visible), the reconnect
\* timeouts, the events of its sockets, disconnect(), and the server
\* unregistering the connections whose socket is closing or closed.  Nothing
\* is drawn and the steps of the replay pass that onConnect starts are not
\* scheduled: they touch no field of the client.
\* ------------------------------------------------------------------------
ConnNext ==
    \/ /\ nextClient <= ConnSockets
       /\ debounce
       /\ UNCHANGED <<lockVars, base, clean>>
    \/ /\ nextClient <= ConnSockets
       /\ handleVisibilityChange
       /\ UNCHANGED <<lockVars, base, clean>>
    \/ /\ nextClient <= ConnSockets
       /\ reconnectTimer
       /\ UNCHANGED <<lockVars, base, clean, effect>>
    \/ onopen /\ UNCHANGED <<lockVars, base, clean, effect>>
    \/ closing /\ UNCHANGED <<lockVars, base, clean, effect>>
    \/ onclose /\ UNCHANGED <<lockVars, base, clean, effect>>
    \/ \E s \in Accepted : oncloseDetached(s) /\ UNCHANGED <<lockVars, base, clean, effect>>
    \/ cleanup /\ UNCHANGED <<lockVars, base, clean>>
    \/ \E c \in Accepted :
          /\ pc[c] = "read"
          /\ readyState(c) \in {"closing", "closed"}
          /\ Unregister(c)
          /\ UNCHANGED cliVars

ConnSpec == Init /\ [][ConnNext]_vars

\* the sockets of the client that are OPEN or CONNECTING
Live == {s \in ClientIds : readyState(s) \in {"open", "connecting"}}

\* a step in which a socket of the client fires its close event
Closes == \E s \in ClientIds : readyState(s) # "closed" /\ readyState(s)' = "closed"

\* a step in which a reconnect timeout fires
TimerFires ==
    /\ timers # << >>
    /\ isIntentionalClose' = isIntentionalClose
    /\ \/ timers' = Tail(timers)
       \/ timers' = clearTimeout(Tail(timers), reconnectTimeout)

C17_ReconnectCap ==
    [][/\ reconnectAttempts' <= MaxReconnectAttempts
       /\ Len(timers') <= Len(timers) + 1
       /\ (ws = "connecting" /\ ws' = "open") => reconnectAttempts' = 0
       /\ (Closes /\ ~isIntentionalClose) =>
            IF reconnectAttempts >= MaxReconnectAttempts
            THEN timers' = timers /\ reconnectAttempts' = reconnectAttempts
            ELSE /\ Len(timers') = Len(timers) + 1
                 /\ reconnectAttempts' = reconnectAttempts + 1]_vars

\* C17 witness: the attempts are at the cap, the socket is closed and no
\* timeout is pending: the last close scheduled nothing
C17_Witness ==
    /\ reconnectAttempts = MaxReconnectAttempts
    /\ ws = "closed" /\ timers = << >> /\ ~isDestroyed

\* C18: a close that is not intentional and finds the attempt count at the cap
\* raises the "permanently disconnected" signal: onMaxReconnectAttempts runs
\* and the hook's isDisconnectedPermanently becomes true.
C18_PermanentSignal ==
    [][(Closes /\ ~isIntentionalClose /\ reconnectAttempts >= MaxReconnectAttempts)
          => isDisconnectedPermanently']_vars

\* C18: the cap is exhausted, nothing will reconnect, and the hook has not
\* been told
C18_Unnotified ==
    /\ reconnectAttempts >= MaxReconnectAttempts
    /\ ws = "closed" /\ timers = << >>
    /\ \A s \in ClientIds : detached[s] \in {"none", "closed"}
    /\ ~isIntentionalClose
    /\ ~isDisconnectedPermanently

\* C19: once disconnect() has been called no socket is created and no
\* reconnect is scheduled: not by a timeout that was pending, not by a later
\* close event, not by a connect() of the hook.
C19_DisconnectTerminal ==
    [][isIntentionalClose =>
          /\ nextClient' = nextClient
          /\ ws' = "none" /\ sock' = sock
          /\ Len(timers') <= Len(timers)
          /\ reconnectAttempts' = reconnectAttempts
          /\ isIntentionalClose']_vars

\* C19 witness: disconnect() was called while a socket was closing and a
\* timeout set by an earlier socket's close was pending; that timeout has
\* fired, the sockets have closed, and there is no new socket
C19_Witness ==
    /\ isIntentionalClose /\ ws = "none"
    /\ reconnectAttempts = 1 /\ timers = << >>
    /\ Cardinality({s \in ClientIds : detached[s] = "closed"}) = nextClient - 1
    /\ nextClient = 3

\* ------------------------------------------------------------------------
\* SyncSpec: one browser on room r1 against the Hub: local actions, the
\* socket's life (drop, reconnect, teardown), the replay pass, the server's
\* reader and handlers.  A drop starts at the browser's end; the server has
\* unregistered a dropped connection before the browser's next one is
\* accepted (the reconnect delay is 3 s).  The writers and the sendRoomState
\* goroutines are not scheduled: what they deliver changes the view and the
\* cache, which no step of the pass reads.  base and clean record, for the
\* running pass, the server's tables when the log was read and whether only
\* the pass wrote since.
\* ------------------------------------------------------------------------

\* the server has no frame of the client to read or to finish handling
Quiet == \A c \in Accepted : wire[c] = << >> /\ pc[c] # "handle"

Hist(ok) == base' = base /\ clean' = (clean /\ ok) /\ UNCHANGED lockVars

\* a step that is not one of the hook's effect
Keep(ok) == Hist(ok) /\ UNCHANGED effect

SyncNext ==
    \/ /\ nextId <= MaxActions
       /\ \E now \in {clock, clock + 1} : addStroke("sA", 1, now)
       /\ Keep(ws # "open")
    \/ /\ nextId <= MaxActions
       /\ \E i \in StrokeIds, now \in {clock, clock + 1} : updateStroke(i, 2, now)
       /\ Keep(ws # "open")
    \/ /\ nextId <= MaxActions
       /\ \E now \in {clock, clock + 1} : addTextBlock("tA", 1, now)
       /\ Keep(ws # "open")
    \/ /\ nextId <= MaxActions
       /\ \E now \in {clock, clock + 1} : updateTextBlock("tA", 2, now)
       /\ Keep(ws # "open")
    \/ /\ nextId <= MaxActions
       /\ \E now \in {clock, clock + 1} : deleteTextBlock("tA", now)
       /\ Keep(ws # "open")
    \/ /\ nextId <= MaxActions
       /\ \E now \in {clock, clock + 1} : updateRoomTitle("Plan", now)
       /\ Keep(ws # "open")
    \/ /\ nextClient <= MaxConnects
       /\ \A c \in Accepted : pc[c] = "closed"
       /\ (debounce \/ handleVisibilityChange) /\ Hist(FALSE)
    \/ onopen /\ Keep(FALSE)
    \/ onclose /\ Keep(FALSE)
    \/ cleanup /\ Hist(FALSE)
    \/ \E k \in Invocations :
          /\ PassRead(k)
          /\ base' = [strokes |-> dbStrokes, texts |-> dbTexts]
          /\ clean' = (ws = "open" /\ Quiet)
          /\ UNCHANGED <<effect, lockVars>>
    \/ \E k \in Invocations : PassReadThrows(k) /\ Keep(FALSE)
    \/ \E k \in Invocations : PassIter(k) /\ Keep(ws = "open")
    \/ \E k \in Invocations : PassEnd(k) /\ Keep(TRUE)
    \/ \E c \in Accepted, fail \in BOOLEAN : ReadPump(c, fail) /\ Keep(~fail)
    \/ \E c \in Accepted : HandlerReturn(c) /\ UNCHANGED cliVars
    \/ \E c \in Accepted : pc[c] = "read" /\ (c # sock \/ ws \notin {"open", "connecting"}) /\ Unregister(c) /\ SocketFrame
          /\ UNCHANGED <<ws, sock, isDestroyed, isSyncing, pass, tcVars>> /\ Keep(FALSE)

SyncSpec == Init /\ [][SyncNext]_vars

\* ------------------------------------------------------------------------
\* Claims on the replay pass, checked under SyncSpec
\* ------------------------------------------------------------------------

\* the server's tables after the handler of message m of connection c ran on
\* tables db without a failure of the store
HandlerEffect(db, c, m) ==
    IF \/ m.type \notin Handled
       \/ MissingField(m)
       \/ (m.type = "text_add" /\ CreateTextBlockFails(db.texts, m.id))
    THEN db
    ELSE [strokes |-> PersistStrokesOn(db.strokes, c, m),
          texts   |-> PersistTextsOn(db.texts, c, m)]

\* the tables after the handlers of a sequence of messages ran one after the other
RECURSIVE ApplyAll(_, _, _)
ApplyAll(db, c, msgs) ==
    IF msgs = << >> THEN db ELSE ApplyAll(HandlerEffect(db, c, Head(msgs)), c, Tail(msgs))

\* log entries in creation order: the order of their auto-incremented keys
CreationOrder(q) ==
    [i \in 1..Len(q) |->
        CHOOSE a \in {q[j] : j \in 1..Len(q)} :
            Cardinality({j \in 1..Len(q) : q[j].id < a.id}) = i - 1]

\* the wire messages of the first n entries of a log
Sent(q, n) == [i \in 1..n |-> WireOf(q[i])]

\* C6: replay determinism.  While nothing but the pass wrote to the server
\* since the pass read the log L (the socket stayed open, the store did not
\* fail), the server's tables, once it has handled the frames in flight, are
\* the tables L1..Li applied in creation order to the tables of the start, i
\* the number of entries replayed so far; at the end of the pass, all of L.
C6_ReplayDeterminism ==
    \A k \in Invocations :
        (clean /\ pass[k].pc \in {"loop", "idle"} /\ pass[k].conn # NoClient)
        => ApplyAll([strokes |-> dbStrokes, texts |-> dbTexts], sock, wire[sock])
           = ApplyAll(base, sock, Sent(CreationOrder(pass[k].actions), pass[k].idx - 1))

\* C6 witness: a pass over two entries of different creation times ended, the
\* server handled both frames, its tables changed, and nothing else wrote
C6_Witness ==
    \E k \in Invocations :
        /\ clean /\ pass[k].pc = "idle" /\ Len(pass[k].actions) = 2
        /\ pass[k].actions[1].createdAt < pass[k].actions[2].createdAt
        /\ wire[sock] = << >> /\ pc[sock] = "read"
        /\ base # [strokes |-> dbStrokes, texts |-> dbTexts]
        /\ \E i \in StrokeIds : dbStrokes[i] # NoRec /\ dbStrokes[i].points = 2

\* a turn of the loop of invocation k
Turn(k) == pass[k].pc = "loop" /\ pass'[k].pc = "loop" /\ pass'[k].idx = pass[k].idx + 1

\* C7: a turn of the replay loop deletes the entry from the log only if its
\* wire message was handed to an open connection; if the connection is not
\* open at the entry's turn, the entry stays in the log.
C7_DeleteOnlyIfSent ==
    [][\A k \in Invocations :
         Turn(k) =>
            /\ pending' # pending
                 => /\ ws = "open"
                    /\ wire'[sock] = Append(wire[sock], WireOf(pass[k].actions[pass[k].idx]))
            /\ ws # "open" => pending' = pending]_vars

\* a pass ran to its end after the view's teardown: the stroke added offline
\* is in the cache, its entry is gone from the log, no frame carries it and
\* the server's table does not hold it
C7_Dropped ==
    /\ isDestroyed /\ pass[1].pc = "idle" /\ Len(pass[1].actions) = 1
    /\ lStrokes["sA"] # NoVal /\ dbStrokes["sA"] = NoRec
    /\ pending = << >> /\ nextId = 2
    /\ \A c \in ClientIds : wire[c] = << >> /\ pc[c] # "handle"
    /\ msgCount = 0 /\ base = [strokes |-> dbStrokes, texts |-> dbTexts]

\* the invocations of sync in progress
Active == {k \in Invocations : pass[k].pc # "idle"}

\* C8: at most one replay pass is in progress and the flag is set exactly
\* while one is; a call of sync made while a pass is in progress changes
\* neither the log nor the frames sent nor the passes; a pass that ends, by
\* the end of its loop or by an exception, clears the flag.
C8_SinglePass ==
    [][/\ Cardinality(Active') <= 1
       /\ isSyncing' <=> Active' # {}
       /\ (ws = "connecting" /\ ws' = "open" /\ Active # {})
            => (pass' = pass /\ pending' = pending /\ wire' = wire)
       /\ \A k \in Invocations :
            (k \in Active /\ k \notin Active') => ~isSyncing']_vars

\* C8 witness: the pass started by the first connection is still in its loop
\* when the second connection opened; the call of the second returned
C8_Witness ==
    /\ ws = "open" /\ sock = 2
    /\ pass[1].pc = "loop" /\ pass[1].conn = 1
    /\ pass[2].pc = "idle"

\* C9: a turn of the replay loop takes the earliest appended entry among the
\* entries the pass has left, ties of creation time included, and removes an
\* entry only after its message went out on the socket.
C9_CreationOrder ==
    [][\A k \in Invocations :
         Turn(k) =>
            LET a == pass[k].actions[pass[k].idx] IN
            /\ \A j \in pass[k].idx..Len(pass[k].actions) : a.id <= pass[k].actions[j].id
            /\ (\E i \in 1..Len(pending) : pending[i].id = a.id)
                 => wire'[sock] = Append(wire[sock], WireOf(a))]_vars

\* the part of C9 on the order alone
C9_OrderOnly ==
    [][\A k \in Invocations :
         Turn(k) =>
            \A j \in pass[k].idx..Len(pass[k].actions) :
                pass[k].actions[pass[k].idx].id <= pass[k].actions[j].id]_vars

\* C30: a view torn down before the debounce delay elapsed never opens a
\* socket; a view torn down later has its client disconnected; in both cases,
\* from the teardown on no socket of the view is OPEN or CONNECTING and no
\* step (a reconnect timeout that fires, a socket event) creates a socket
C30_TeardownLeavesNoSocket ==
    [][effect'.isCancelled =>
          /\ Live' = {}
          /\ nextClient' = nextClient
          /\ IF effect'.isConnected
             THEN isDestroyed' /\ isIntentionalClose' /\ ws' = "none"
             ELSE /\ nextClient' = 1 /\ ws' = "none"
                  /\ \A s \in ClientIds : detached'[s] = "none"]_vars

\* C30 witness: the view was torn down after a reconnect attempt was
\* scheduled; a socket of the view is still closing, no timeout is pending
\* and the view could have created one more socket
C30_Witness ==
    /\ effect.isCancelled /\ effect.isConnected
    /\ reconnectAttempts > 0 /\ timers = << >> /\ nextClient <= ConnSockets
    /\ \E s \in Accepted : detached[s] = "closing"

\* C30 witness of the other case: the view was torn down before the timeout
\* of the effect fired
C30_TornDownEarly == effect.isCancelled /\ ~effect.isConnected /\ ws = "none"

\* ------------------------------------------------------------------------
\* EditSpec: the local actions of the hook, offline and online: the browser
\* draws, writes and clears; it connects, the socket opens and closes; the
\* replay pass that onConnect starts runs.  The server reads no frame: what
\* the browser sent stays on the wire.  No message of the server arrives, so
\* only the local actions change the views.
\* ------------------------------------------------------------------------
EditNext ==
    \/ /\ nextId <= MaxActions
       /\ \E now \in {clock, clock + 1} : addStroke("sA", 1, now)
       /\ UNCHANGED <<lockVars, base, clean, effect>>
    \/ /\ nextId <= MaxActions
       /\ \E i \in StrokeIds, now \in {clock, clock + 1} : updateStroke(i, 2, now)
       /\ UNCHANGED <<lockVars, base, clean, effect>>
    \/ /\ nextId <= MaxActions
       /\ \E now \in {clock, clock + 1} : addTextBlock("tA", 1, now)
       /\ UNCHANGED <<lockVars, base, clean, effect>>
    \/ /\ nextId <= MaxActions
       /\ \E now \in {clock, clock + 1} : updateTextBlock("tA", 2, now)
       /\ UNCHANGED <<lockVars, base, clean, effect>>
    \/ /\ nextId <= MaxActions
       /\ \E now \in {clock, clock + 1} : deleteTextBlock("tA", now)
       /\ UNCHANGED <<lockVars, base, clean, effect>>
    \/ /\ vStrokes # << >> \/ vTexts # << >>
       /\ clearAll
       /\ UNCHANGED <<lockVars, base, clean, effect>>
    \/ /\ nextClient <= EditConnects
       /\ (debounce \/ handleVisibilityChange)
       /\ UNCHANGED <<lockVars, base, clean>>
    \/ onopen /\ UNCHANGED <<lockVars, base, clean, effect>>
    \/ onclose /\ UNCHANGED <<lockVars, base, clean, effect>>
    \/ \E k \in Invocations : PassRead(k) /\ UNCHANGED <<lockVars, base, clean, effect>>
    \/ \E k \in Invocations : PassIter(k) /\ UNCHANGED <<lockVars, base, clean, effect>>
    \/ \E k \in Invocations : PassIterThrows(k) /\ UNCHANGED <<lockVars, base, clean, effect>>
    \/ \E k \in Invocations : PassEnd(k) /\ UNCHANGED <<lockVars, base, clean, effect>>

EditSpec == Init /\ [][EditNext]_vars

\* a step of a local action that changes what the board shows
ViewChanges == vStrokes' # vStrokes \/ vTexts' # vTexts

\* the cache holds, after the step, every entity the step changed in the views
CacheFollowsView ==
    /\ \A i \in StrokeIds :
          ValOf(vStrokes', i) # ValOf(vStrokes, i) => lStrokes'[i] = ValOf(vStrokes', i)
    /\ \A i \in TextIds :
          ValOf(vTexts', i) # ValOf(vTexts, i) => lTexts'[i] = ValOf(vTexts', i)

\* the step appended one entry to the log and removed none
OneAppended ==
    /\ Len(pending') = Len(pending) + 1
    /\ SubSeq(pending', 1, Len(pending)) = pending

\* a frame was sent by a step that is not a turn of a replay pass
DirectSend == pass' = pass /\ \E c \in ClientIds : Len(wire'[c]) > Len(wire[c])

\* C20: every local mutating action (stroke add, stroke update, text add,
\* text update, text delete, clear-all) applies its change to the local cache
\* and appends one PendingAction to the log, whether or not the transport is
\* open; a send outside a replay pass removes no log entry.
C20_LocalActionLogged ==
    [][/\ ViewChanges => CacheFollowsView /\ OneAppended
       /\ DirectSend => Len(pending') >= Len(pending)
                        /\ SubSeq(pending', 1, Len(pending)) = pending]_vars

\* C20, the part that holds: the five actions on one entity (they all take a
\* new key of the log) apply their change to the cache and append one entry,
\* connected or not, and a direct send removes no entry
C20_EntityActionsLogged ==
    [][/\ (ViewChanges /\ nextId' # nextId) => CacheFollowsView /\ OneAppended
       /\ nextId' # nextId => OneAppended
       /\ DirectSend => Len(pending') >= Len(pending)
                        /\ SubSeq(pending', 1, Len(pending)) = pending]_vars

\* C20: the board was cleared offline after a stroke was drawn: the view is
\* empty, the cache still holds the stroke and the log has no clear_all entry
C20_ClearNotLogged ==
    /\ ws = "none" /\ nextClient = 1
    /\ vStrokes = << >> /\ lStrokes["sA"] # NoVal
    /\ Len(pending) = 1 /\ pending[1].type = "stroke_add"

\* a turn of the loop of invocation k in which the send of the entry raised:
\* the entry is still in the log and no frame went out
Raised(k) ==
    /\ pass[k].pc = "loop" /\ pass[k].idx <= Len(pass[k].actions)
    /\ pass'[k] # pass[k]
    /\ pending' = pending /\ wire' = wire

\* C21: if sending an entry raises an error during a replay pass, the pass
\* stops there: it takes no later entry of the log (none is sent or removed in
\* that pass) and the later entries stay queued for the next reconnect.
C21_AbortOnError ==
    [][\A k \in Invocations :
         Raised(k) => \/ pass'[k].pc = "idle"
                      \/ pass'[k].idx > Len(pass'[k].actions)]_vars

\* C21, what the pass does: the entry whose send raised stays in the log
\* and the loop goes on with the entry after it
C21_SkipsAndContinues ==
    [][\A k \in Invocations :
         Raised(k) => /\ pass'[k].pc = "loop"
                      /\ pass'[k].idx = pass[k].idx + 1
                      /\ pass'[k].actions = pass[k].actions
                      /\ isSyncing']_vars

\* C21: a pass over two entries ended; the send of the first raised and the
\* entry is still in the log; the second, created later, was sent and removed
C21_LaterEntrySent ==
    \E k \in Invocations :
        /\ pass[k].pc = "idle" /\ Len(pass[k].actions) = 2
        /\ pending = <<pass[k].actions[1]>>
        /\ ws = "open" /\ wire[sock] = <<WireOf(pass[k].actions[2])>>

\* ------------------------------------------------------------------------
\* OfflineSpec: the offline-stroke scenario.  The browser, never connected,
\* adds stroke sA; then it connects once; the replay pass started by
\* onConnect, the server's handling of its frame and the sendRoomState of the
\* connection run in any order; nothing fails and the connection stays up.
\* ------------------------------------------------------------------------
OfflineNext ==
    \/ /\ ws = "none" /\ nextId = 1
       /\ \E v \in Vals, now \in {clock, clock + 1} : addStroke("sA", v, now)
       /\ Keep(TRUE)
    \/ nextClient = 1 /\ pending # << >> /\ debounce /\ Hist(TRUE)
    \/ onopen /\ Keep(TRUE)
    \/ \E k \in Invocations : PassRead(k) /\ Keep(TRUE)
    \/ \E k \in Invocations : PassIter(k) /\ Keep(TRUE)
    \/ \E k \in Invocations : PassEnd(k) /\ Keep(TRUE)
    \/ \E c \in Accepted : ReadPump(c, FALSE) /\ Keep(TRUE)
    \/ \E c \in Accepted : HandlerReturn(c) /\ UNCHANGED cliVars
    \/ \E c \in Accepted : SrsFetch(c, TRUE) /\ UNCHANGED cliVars
    \/ \E c \in Accepted : SrsCheck(c) /\ UNCHANGED cliVars
    \/ \E c \in Accepted : SrsSend(c) /\ UNCHANGED cliVars
    \/ \E c \in Accepted : onmessage(c) /\ Keep(TRUE)

OfflineSpec == Init /\ [][OfflineNext]_vars

\* the strokes the server's table holds for the room
Persisted == {i \in StrokeIds : dbStrokes[i] # NoRec /\ dbStrokes[i].roomId = RoomId}

\* the step in which the hook processes a room_state whose only stroke is sB
SnapshotOfB ==
    /\ ws = "open" /\ Send[sock] # << >>
    /\ Head(Send[sock]).type = "room_state"
    /\ {i \in StrokeIds : Head(Send[sock]).roomState.strokes[i] # NoVal} = {"sB"}
    /\ Send'[sock] = Tail(Send[sock])

\* the replay of the log is over and the server handled its frames
Replayed ==
    /\ pass[1].pc = "idle" /\ pass[1].conn # NoClient
    /\ wire[sock] = << >> /\ pc[sock] = "read"

\* C4: the offline-stroke scenario.  Stroke sA, added while disconnected, is
\* never removed from the view; the view after the hook processed the
\* snapshot holding only sB is {sA, sB}; the server's table after the replay
\* is {sA, sB}.
C4_OfflineStroke ==
    [][/\ "sA" \in Ids(vStrokes) => "sA" \in Ids(vStrokes')
       /\ SnapshotOfB => Ids(vStrokes') = {"sA", "sB"}
       /\ ("sB" \in Persisted /\ Replayed') => Persisted' = {"sA", "sB"}]_vars

\* the part of C4 on the server's table
C4_ServerPart ==
    [][("sB" \in Persisted /\ Replayed') => Persisted' = {"sA", "sB"}]_vars

\* the scenario's end in which the view lost the stroke added offline: the
\* server holds sA and sB, the log is empty, the view shows sB alone
C4_Lost ==
    /\ Replayed /\ Persisted = {"sA", "sB"} /\ pending = << >>
    /\ lStrokes["sA"] # NoVal
    /\ Ids(vStrokes) = {"sB"}

\* the room_state of the browser's connection has been sent, received and
\* merged by the hook
SnapshotMerged ==
    /\ srs[sock] = "done"
    /\ \A i \in 1..Len(Send[sock]) : Send[sock][i].type # "room_state"

\* C27: on a (re)connection the replay pass re-sends no pending action
\* before the room_state snapshot of that connection has been received and
\* merged with the pending log: connect, snapshot merge, then replay.
C27_MergeBeforeReplay ==
    [][\A k \in Invocations :
         (Turn(k) /\ wire' # wire) => SnapshotMerged]_vars

\* C27, what holds: a pending action is re-sent only after the connection
\* opened, by the pass its onConnect started
C27_ReplayAfterConnect ==
    [][\A k \in Invocations :
         (Turn(k) /\ wire' # wire) => ws = "open" /\ pass[k].conn = sock]_vars

\* C27: the server has the replayed stroke in its table while the
\* sendRoomState goroutine of the connection has not fetched the room's state
C27_ReplayedFirst ==
    /\ ws = "open" /\ srs[sock] = "fetch"
    /\ pending = << >> /\ wire[sock] = << >>
    /\ dbStrokes["sA"] # NoRec
    /\ "sA" \in Ids(vStrokes)

\* ------------------------------------------------------------------------
\* MergeSpec: handleRoomState as a function of the snapshot, the pending log
\* and the local cache.  The browser's tables outlive a page: a session
\* starts with the log and the cache earlier sessions left.  Init draws them,
\* and the snapshot the server sent to the browser's connection, from the
\* values below; the one action is the hook's processing of the snapshot.
\* ------------------------------------------------------------------------

\* the payloads of the log's entries
LogEntries ==
    {[type |-> "stroke_add", eid |-> "sA", val |-> 1],
     [type |-> "stroke_update", eid |-> "sA", val |-> 2],
     [type |-> "stroke_update", eid |-> "sB", val |-> 2],
     [type |-> "text_add", eid |-> "tA", val |-> 1],
     [type |-> "text_update", eid |-> "tA", val |-> 2],
     [type |-> "text_delete", eid |-> "tA", val |-> NoVal],
     [type |-> "room_update", eid |-> Nil, val |-> 1]}

\* a log the local actions can leave: ids are generated, so an entity is
\* added at most once and before its other entries; a text block deleted
\* locally is out of the view and gets no further entry
WellFormedLog(q) ==
    \A i \in 1..Len(q), j \in 1..Len(q) :
        (i < j /\ q[i].eid = q[j].eid /\ q[i].eid # Nil)
        => q[j].type \notin {"stroke_add", "text_add"} /\ q[i].type # "text_delete"

\* the logs of Init: entries in key order, creation times not decreasing
Logs ==
    {[i \in 1..Len(q) |->
        [id |-> i, type |-> q[i].type, eid |-> q[i].eid, val |-> q[i].val, createdAt |-> i]] :
        q \in {p \in UNION {[1..n -> LogEntries] : n \in 0..MaxLog} : WellFormedLog(p)}}

\* the tables of one kind of entity: id -> content, NoVal if absent
Tables(ids) == [ids -> Vals \cup {NoVal}]

\* the browser's connection is open and registered in the room: the log is q,
\* the local cache cs, ct, the store's tables dS, dT, the views vS, vT, and the
\* messages queue wait in the connection's send channel
ConnectedInit(q, cs, ct, dS, dT, vS, vT, queue) ==
    /\ pending = q
    /\ nextId = Len(q) + 1
    /\ clock = IF q = << >> THEN 0 ELSE q[Len(q)].createdAt
    /\ lStrokes = cs
    /\ lTexts = ct
    /\ dbStrokes = dS
    /\ dbTexts = dT
    /\ Send = [c \in ClientIds |-> IF c = 1 THEN queue ELSE << >>]
    /\ Rooms = [r \in {RoomId} |-> {1}]
    /\ clientRoom = [c \in ClientIds |-> IF c = 1 THEN RoomId ELSE ""]
    /\ clientColor = [c \in ClientIds |-> IF c = 1 THEN Colors[1] ELSE ""]
    /\ sendClosed = [c \in ClientIds |-> FALSE]
    /\ nextClient = 2
    /\ pc = [c \in ClientIds |-> IF c = 1 THEN "read" ELSE "none"]
    /\ cur = [c \in ClientIds |-> NoRec]
    /\ srs = [c \in ClientIds |-> IF c = 1 THEN "done" ELSE "none"]
    /\ snap = [c \in ClientIds |-> NoRec]
    /\ msgCount = 0
    /\ leftSince = [r \in RoomIds |-> FALSE]
    /\ vStrokes = vS
    /\ vTexts = vT
    /\ ws = "open"
    /\ sock = 1
    /\ isDestroyed = FALSE
    /\ detached = [c \in ClientIds |-> "none"]
    /\ reconnectAttempts = 0
    /\ reconnectTimeout = NoTimer
    /\ timers = << >>
    /\ isIntentionalClose = FALSE
    /\ isDisconnectedPermanently = FALSE
    /\ isConnectedState = TRUE
    /\ lRooms = [r \in RoomIds |-> Nil]
    /\ wire = [c \in ClientIds |-> << >>]
    /\ isSyncing = FALSE
    /\ pass = [k \in Invocations |-> IdlePass]
    /\ base = NoRec
    /\ RoomsMu = [writer |-> Nil, readers |-> {}, waiting |-> FALSE]
    /\ run = [op |-> Nil, c |-> NoClient, at |-> "select"]
    /\ clean = FALSE
    /\ effect = [roomId |-> RoomId, isCancelled |-> FALSE, isConnected |-> TRUE,
                 wsRef |-> TRUE]

\* a session of the browser that finds log q and the caches cs, ct of earlier
\* sessions; its connection, registered, has the snapshot ss, st in its queue
SessionInit(q, cs, ct, ss, st) ==
    ConnectedInit(q, cs, ct,
        [i \in StrokeIds |->
            IF ss[i] = NoVal THEN NoRec
            ELSE [roomId |-> RoomId, points |-> ss[i], createdBy |-> NoClient]],
        [i \in TextIds |->
            IF st[i] = NoVal THEN NoRec ELSE [roomId |-> RoomId, content |-> st[i]]],
        << >>, << >>,
        <<[type |-> "room_state", pid |-> NoClient,
           roomState |-> [strokes |-> ss, texts |-> st],
           participants |-> {[id |-> 1, color |-> Colors[1]]}]>>)

MergeInit ==
    \E q \in Logs, cs \in Tables(StrokeIds), ct \in Tables(TextIds),
       ss \in Tables(StrokeIds), st \in Tables(TextIds) :
       \* the local cache holds every stroke the log mentions
       /\ \A i \in 1..Len(q) : q[i].eid \in StrokeIds => cs[q[i].eid] # NoVal
       /\ SessionInit(q, cs, ct, ss, st)

MergeNext == onmessage(1) /\ Keep(TRUE)

MergeSpec == MergeInit /\ [][MergeNext]_vars

\* the ids of a kind whose latest entry in the log has one of the types
LatestIs(ids, kinds, types) ==
    {id \in ids :
        \E i \in 1..Len(pending) :
            /\ pending[i].eid = id /\ pending[i].type \in types
            /\ \A j \in (i + 1)..Len(pending) :
                  ~(pending[j].eid = id /\ pending[j].type \in kinds)}

StrokeKinds == {"stroke_add", "stroke_update"}

TextKinds == {"text_add", "text_update", "text_delete"}

DirtyStrokes == LatestIs(StrokeIds, StrokeKinds, StrokeKinds)

DirtyTexts == LatestIs(TextIds, TextKinds, {"text_add", "text_update"})

DeletedTexts == LatestIs(TextIds, TextKinds, {"text_delete"})

\* the step in which the hook processes a room_state
Snapshot ==
    /\ ws = "open" /\ ~isDestroyed /\ Send[sock] # << >>
    /\ Head(Send[sock]).type = "room_state"
    /\ Send'[sock] = Tail(Send[sock])

\* the merged view of one kind: no id twice, the deleted ids left out, every
\* id neither dirty nor deleted as in the snapshot
MergedRest(view, server, ids, dirty, deleted) ==
    /\ Cardinality(Ids(view)) = Len(view)
    /\ \A id \in deleted : id \notin Ids(view)
    /\ \A id \in ids \ (dirty \cup deleted) : ValOf(view, id) = server[id]

\* C5 as stated: the merged view holds the local cache's version of every
\* dirty id; it has no entity of a deleted id; every other entity of the
\* snapshot is in it unchanged; no id is in it twice.
C5_MergeAllDirty ==
    [][Snapshot =>
         LET S == Head(Send[sock]).roomState IN
         /\ \A id \in DirtyStrokes :
               id \in Ids(vStrokes') /\ ValOf(vStrokes', id) = lStrokes[id]
         /\ \A id \in DirtyTexts :
               id \in Ids(vTexts') /\ ValOf(vTexts', id) = lTexts[id]
         /\ MergedRest(vStrokes', S.strokes, StrokeIds, DirtyStrokes, {})
         /\ MergedRest(vTexts', S.texts, TextIds, DirtyTexts, DeletedTexts)]_vars

\* C5, amended: the merged view holds the local cache's version of every
\* dirty id the local cache has an entity for; it has no entity of a deleted
\* id; every other entity of the snapshot is in it unchanged; no id is in it
\* twice.
C5_Merge ==
    [][Snapshot =>
         LET S == Head(Send[sock]).roomState IN
         /\ \A id \in DirtyStrokes :
               lStrokes[id] # NoVal
               => id \in Ids(vStrokes') /\ ValOf(vStrokes', id) = lStrokes[id]
         /\ \A id \in DirtyTexts :
               lTexts[id] # NoVal
               => id \in Ids(vTexts') /\ ValOf(vTexts', id) = lTexts[id]
         /\ MergedRest(vStrokes', S.strokes, StrokeIds, DirtyStrokes, {})
         /\ MergedRest(vTexts', S.texts, TextIds, DirtyTexts, DeletedTexts)]_vars

\* C5 witness: after the merge the view shows the cache's version of a dirty
\* stroke the snapshot had another version of, and the snapshot's version of
\* a stroke with no pending entry; a text block of the snapshot whose latest
\* entry is a delete is not shown
C5_Witness ==
    /\ Send[1] = << >>
    /\ "sA" \in DirtyStrokes /\ "sB" \notin DirtyStrokes
    /\ dbStrokes["sA"] # NoRec /\ dbStrokes["sA"].points = 1 /\ ValOf(vStrokes, "sA") = 2
    /\ dbStrokes["sB"] # NoRec /\ ValOf(vStrokes, "sB") = dbStrokes["sB"].points
    /\ "tA" \in DeletedTexts /\ dbTexts["tA"] # NoRec /\ vTexts = << >>

\* C25: when a room_state is processed, the cache entry of every dirty id is
\* left as it is, no deleted id is put back into the cache, and the server's
\* entities whose id is in neither set, and only those, are written to it.
C25_CacheKeepsDirty ==
    [][Snapshot =>
         LET S == Head(Send[sock]).roomState IN
         /\ \A id \in DirtyStrokes : lStrokes'[id] = lStrokes[id]
         /\ \A id \in DirtyTexts \cup DeletedTexts : lTexts'[id] = lTexts[id]
         /\ \A id \in StrokeIds \ DirtyStrokes :
               lStrokes'[id] = IF S.strokes[id] # NoVal THEN S.strokes[id] ELSE lStrokes[id]
         /\ \A id \in TextIds \ (DirtyTexts \cup DeletedTexts) :
               lTexts'[id] = IF S.texts[id] # NoVal THEN S.texts[id] ELSE lTexts[id]]_vars

\* C25, what the hook does: every entity of the snapshot is written to the
\* cache, whatever the log says of its id; the other cache entries are kept
C25_CacheTakesSnapshot ==
    [][Snapshot =>
         LET S == Head(Send[sock]).roomState IN
         /\ \A id \in StrokeIds :
               lStrokes'[id] = IF S.strokes[id] # NoVal THEN S.strokes[id] ELSE lStrokes[id]
         /\ \A id \in TextIds :
               lTexts'[id] = IF S.texts[id] # NoVal THEN S.texts[id] ELSE lTexts[id]]_vars

\* C25: after the snapshot was processed the view shows the local version 2
\* of the dirty stroke sA, which the cache held, while the cache now holds
\* the server's version 1; the update of sA is still in the log
C25_DirtyOverwritten ==
    /\ Send[1] = << >>
    /\ "sA" \in DirtyStrokes
    /\ ValOf(vStrokes, "sA") = 2
    /\ dbStrokes["sA"] # NoRec /\ dbStrokes["sA"].points = 1
    /\ lStrokes["sA"] = 1

\* ------------------------------------------------------------------------
\* PendingSpec: getPendingState over every small log, the entries in any
\* order (a text block deleted locally may come back by a peer's text_add and
\* be edited again) and with equal creation times.  The cache holds every
\* entity, the snapshot none; the one action is the hook's processing of the
\* snapshot, which calls getPendingState.
\* ------------------------------------------------------------------------

\* the creation times of a log of n entries: they do not decrease
Stamps(n) ==
    {t \in [1..n -> 1..n] :
        \A i \in 1..n :
            IF i = 1 THEN t[i] = 1 ELSE t[i] \in {t[i - 1], t[i - 1] + 1}}

AnyLogs ==
    UNION {{[i \in 1..n |->
               [id |-> i, type |-> q[i].type, eid |-> q[i].eid, val |-> q[i].val,
                createdAt |-> t[i]]] : q \in [1..n -> LogEntries], t \in Stamps(n)} :
           n \in 0..MaxLog}

PendingInit ==
    \E q \in AnyLogs :
        SessionInit(q, [i \in StrokeIds |-> 1], [i \in TextIds |-> 1],
                    [i \in StrokeIds |-> NoVal], [i \in TextIds |-> NoVal])

PendingSpec == PendingInit /\ [][MergeNext]_vars

\* the elements of a Set
Elems(q) == {q[i] : i \in 1..Len(q)}

\* the four id sets getPendingState computes from the log
PendingSets ==
    PendingIds(sortBy(pending),
               [dirtyStrokeIds |-> << >>, dirtyTextBlockIds |-> << >>,
                deletedStrokeIds |-> << >>, deletedTextBlockIds |-> << >>])

\* the ids of a kind that an action of the log names
Named(kinds) == {pending[i].eid : i \in {j \in 1..Len(pending) : pending[j].type \in kinds}}

\* C26: for every pending log, getPendingState yields per kind a dirty set
\* and a deleted set such that every id an add, update or delete of the log
\* names is in exactly one of the two, decided by the latest such action for
\* the id in creation order (add, update: dirty; delete: deleted), and an id
\* no action names is in neither.
C26_PendingSets ==
    LET p == PendingSets IN
    /\ Elems(p.dirtyStrokeIds) = DirtyStrokes
    /\ Elems(p.deletedStrokeIds) = {}
    /\ Elems(p.dirtyTextBlockIds) = DirtyTexts
    /\ Elems(p.deletedTextBlockIds) = DeletedTexts
    /\ Elems(p.dirtyStrokeIds) \cap Elems(p.deletedStrokeIds) = {}
    /\ Elems(p.dirtyTextBlockIds) \cap Elems(p.deletedTextBlockIds) = {}
    /\ Elems(p.dirtyStrokeIds) \cup Elems(p.deletedStrokeIds) = Named(StrokeKinds)
    /\ Elems(p.dirtyTextBlockIds) \cup Elems(p.deletedTextBlockIds) = Named(TextKinds)
    /\ Len(p.dirtyStrokeIds) = Cardinality(Elems(p.dirtyStrokeIds))
    /\ Len(p.dirtyTextBlockIds) = Cardinality(Elems(p.dirtyTextBlockIds))

\* C26 witness: the hook processed a snapshot with a log in which text block
\* tA is deleted and then updated at the same creation time, and stroke sA is
\* updated: tA and sA are dirty, no id is deleted and sB is in no set
C26_Witness ==
    /\ Send[1] = << >> /\ Len(pending) = 3
    /\ pending[1].type = "text_delete"
    /\ pending[2].type = "text_update" /\ pending[2].createdAt = pending[1].createdAt
    /\ pending[3].type = "stroke_update" /\ pending[3].eid = "sA"
    /\ Elems(PendingSets.dirtyTextBlockIds) = {"tA"}
    /\ Elems(PendingSets.deletedTextBlockIds) = {}
    /\ Elems(PendingSets.dirtyStrokeIds) = {"sA"}
    /\ Ids(vTexts) = {"tA"}

\* ------------------------------------------------------------------------
\* PatchSpec: a text_update with a patch of several fields, from the hook's
\* updateTextBlock through the server's handler to models.UpdateTextBlock.
\* In this specification a text block is the record of its eight content
\* fields, a patch (TextBlockUpdate, Partial<TextBlock>) is a record of the
\* fields it provides, and an absent row or a nil patch is NoRec.
\* ------------------------------------------------------------------------

\* the fields of TextBlockUpdate, in the order UpdateTextBlock tests them
PatchFields == <<"x", "y", "width", "height", "content", "fontSize", "color", "fontFamily">>

PatchFieldSet == {PatchFields[i] : i \in 1..Len(PatchFields)}

\* the patches: every non-empty subset of the fields, each with a new value
Patches == UNION {[fs -> {2}] : fs \in SUBSET PatchFieldSet \ {{}}}

\* a text block as created: every field has the value 1
NewTextBlock == [f \in PatchFieldSet |-> 1]

\* the two copies of UpdateTextBlock in the source tree
Builds == {"text_block.go", "room.go"}

\* string(rune('0' + argNum)): the one character whose code point is '0' + argNum
RuneString(argNum) == <<48 + argNum>>

\* fmt.Sprintf("%d", argNum): the decimal digits of a positive argNum
RECURSIVE Sprintf_d(_)
Sprintf_d(argNum) ==
    IF argNum < 10 THEN <<48 + argNum>>
    ELSE Append(Sprintf_d(argNum \div 10), 48 + (argNum % 10))

\* the text a copy of UpdateTextBlock puts after "$"
Placeholder(build, argNum) ==
    IF build = "room.go" THEN Sprintf_d(argNum) ELSE RuneString(argNum)

\* the statement UpdateTextBlock builds: the SET list after updated_at = $1,
\* the placeholder of WHERE id =, and args
UpdateTextBlockQuery(build, id, updates) ==
    LET provided == SelectSeq(PatchFields, LAMBDA f : f \in DOMAIN updates)
    IN  [sets  |-> [i \in 1..Len(provided) |->
                       [col |-> provided[i], ph |-> Placeholder(build, i + 1)]],
         where |-> Placeholder(build, Len(provided) + 2),
         args  |-> <<"now">> \o [i \in 1..Len(provided) |-> updates[provided[i]]] \o <<id>>]

\* the parameter a placeholder names: a positive decimal number, 0 if the text
\* after "$" is not a number (the statement does not parse)
RECURSIVE ParamNumber(_)
ParamNumber(ph) ==
    IF ph = << >> THEN 0
    ELSE IF \E i \in 1..Len(ph) : ph[i] \notin 48..57 THEN 0
    ELSE 10 * ParamNumber(SubSeq(ph, 1, Len(ph) - 1)) + (ph[Len(ph)] - 48)

\* pool.Exec of the statement: an error and no change if a placeholder is not
\* a parameter of the statement; otherwise the row with the id is updated
Exec(db, q) ==
    LET n == Len(q.args)
        ok == /\ ParamNumber(q.where) \in 1..n
              /\ \A i \in 1..Len(q.sets) : ParamNumber(q.sets[i].ph) \in 1..n
    IN  IF ~ok THEN [db |-> db, err |-> TRUE]
        ELSE [db |-> [r \in DOMAIN db |->
                        IF db[r] # NoRec /\ r = q.args[ParamNumber(q.where)]
                        THEN [f \in DOMAIN db[r] |->
                                IF \E i \in 1..Len(q.sets) : q.sets[i].col = f
                                THEN LET i == CHOOSE i \in 1..Len(q.sets) : q.sets[i].col = f
                                     IN  q.args[ParamNumber(q.sets[i].ph)]
                                ELSE db[r][f]]
                        ELSE db[r]],
              err |-> FALSE]

\* models.UpdateTextBlock(ctx, pool, id, updates) of a copy
UpdateTextBlockFields(build, db, id, updates) ==
    Exec(db, UpdateTextBlockQuery(build, id, updates))

\* Object.assign(textBlock, updates), { ...tb, ...updates }
ObjectAssign(tb, updates) ==
    [f \in DOMAIN tb \cup DOMAIN updates |->
        IF f \in DOMAIN updates THEN updates[f] ELSE tb[f]]

\* the hook's updateTextBlock with SyncService.updateTextBlock: the view, a
\* direct send if connected, the cached row and the log
patchTextBlock(id, updates, now) ==
    /\ nextId <= MaxPatches
    /\ vTexts' = [i \in 1..Len(vTexts) |->
                    IF vTexts[i].id = id
                    THEN [id |-> id, val |-> ObjectAssign(vTexts[i].val, updates)]
                    ELSE vTexts[i]]
    /\ wire' = send(ClientMessage("text_update", id, updates))
    /\ IF lTexts[id] # NoRec
       THEN /\ lTexts' = [lTexts EXCEPT ![id] = ObjectAssign(lTexts[id], updates)]
            /\ pending' = queueAction("text_update", id, updates, now)
            /\ nextId' = nextId + 1
            /\ clock' = now
       ELSE UNCHANGED <<lTexts, pending, nextId, clock>>
    /\ UNCHANGED <<vStrokes, lStrokes>>
    /\ LocalFrame

\* the reader of connection c decoded a text_update; handleTextUpdate up to
\* the return of models.UpdateTextBlock
handleTextUpdate(c, build) ==
    /\ wire[c] # << >>
    /\ pc[c] = "read"
    /\ LET m == Head(wire[c]) IN
       /\ m.type = "text_update"
       /\ IF m.id = Nil \/ m.val = NoRec
          THEN UNCHANGED <<pc, cur, dbTexts>>
          ELSE LET r == UpdateTextBlockFields(build, dbTexts, m.id, m.val) IN
               /\ pc' = [pc EXCEPT ![c] = "handle"]
               /\ cur' = [cur EXCEPT ![c] = [msg |-> m, err |-> r.err]]
               /\ dbTexts' = r.db
    /\ wire' = [wire EXCEPT ![c] = Tail(wire[c])]
    /\ UNCHANGED <<Rooms, clientRoom, clientColor, Send, sendClosed, nextClient,
                   srs, snap, leftSince, dbStrokes, msgCount>>
    /\ UNCHANGED <<lStrokes, lTexts, pending, nextId, clock, vStrokes, vTexts,
                   ws, sock, isDestroyed, isSyncing, pass, tcVars>>

\* the browser's connection is in the room; the store, the cache and the view
\* hold the text blocks as created
PatchInit ==
    ConnectedInit(<< >>, [i \in StrokeIds |-> NoVal],
                     [i \in PatchTextIds |-> NewTextBlock],
                     [i \in StrokeIds |-> NoRec],
                     [i \in PatchTextIds |-> NewTextBlock],
                     << >>,
                     <<[id |-> "tA", val |-> NewTextBlock], [id |-> "tB", val |-> NewTextBlock]>>,
                     << >>)

PatchNext ==
    \/ \E id \in PatchTextIds, updates \in Patches :
          patchTextBlock(id, updates, clock + 1) /\ UNCHANGED <<lockVars, base, clean, effect>>
    \/ \E build \in Builds : handleTextUpdate(1, build) /\ UNCHANGED <<lockVars, base, clean, effect>>
    \/ HandlerReturn(1) /\ UNCHANGED cliVars

PatchSpec == PatchInit /\ [][PatchNext]_vars

\* the row a patch is to leave: the provided fields new, the others as before
Patched(tb, updates) ==
    [f \in DOMAIN tb |-> IF f \in DOMAIN updates THEN updates[f] ELSE tb[f]]

\* the handler of connection 1 takes the text_update m in this step
TakesUpdate(m) ==
    /\ wire[1] # << >> /\ m = Head(wire[1]) /\ wire'[1] = Tail(wire[1])
    /\ m.type = "text_update"

\* the hook queues a patch in this step
QueuesPatch == nextId' = nextId + 1

\* the cache after a step that queues a patch holds the patched row only
CachePatched ==
    LET a == pending'[Len(pending')]
    IN  lTexts' = [lTexts EXCEPT ![a.eid] = Patched(lTexts[a.eid], a.val)]

\* C24: a text_update carrying any non-empty subset of the eight patchable
\* fields, all eight included, is persisted so that exactly the provided
\* fields of that text block take the new values and every other field and
\* every other text block is unchanged; the client's cache takes the same patch
C24_PatchPersisted ==
    [][/\ \A m \in {Head(wire[1]) : i \in {1} \cap DOMAIN wire[1]} :
             TakesUpdate(m) =>
                dbTexts' = [dbTexts EXCEPT ![m.id] = Patched(dbTexts[m.id], m.val)]
       /\ QueuesPatch => CachePatched]_vars

\* C24, what holds: a patch of up to seven fields is persisted exactly by
\* either copy of UpdateTextBlock, a patch of all eight by the copy that formats
\* the placeholder with Sprintf, and the cache takes every patch; the copy
\* that makes the placeholder from one rune leaves the store as it was and
\* returns an error for a patch of all eight
C24_PersistedUpToSeven ==
    [][/\ \A m \in {Head(wire[1]) : i \in {1} \cap DOMAIN wire[1]} :
             \A build \in Builds :
                handleTextUpdate(1, build) /\ TakesUpdate(m) =>
                   IF build = "room.go" \/ DOMAIN m.val # PatchFieldSet
                   THEN /\ dbTexts' = [dbTexts EXCEPT ![m.id] = Patched(dbTexts[m.id], m.val)]
                        /\ ~cur'[1].err
                   ELSE dbTexts' = dbTexts /\ cur'[1].err
       /\ QueuesPatch => CachePatched]_vars

\* C24, witness: the handler returned from UpdateTextBlock with an error for a
\* patch of all eight fields: the cache has the patched row, the store the old
C24_AllEightLost ==
    /\ pc[1] = "handle" /\ cur[1].err
    /\ cur[1].msg.id = "tA" /\ DOMAIN cur[1].msg.val = PatchFieldSet
    /\ lTexts["tA"] = [f \in PatchFieldSet |-> 2]
    /\ dbTexts["tA"] = NewTextBlock
    /\ dbTexts["tB"] = NewTextBlock /\ lTexts["tB"] = NewTextBlock

\* ------------------------------------------------------------------------
\* SwitchSpec: the user draws a stroke offline in the view of room RoomId,
\* the view connects, and the user goes on to another room: the effect's
\* cleanup runs and the effect runs again for the new room, with a new
\* client.  The replay pass of the first view runs on; nothing fails.
\* ------------------------------------------------------------------------

\* the roomId prop changes to r: the cleanup of the effect, then the effects
\* for r: the view is loaded from the cache (which holds nothing of r), a new
\* WebSocketClient is created and its timeout started.  The sockets and the
\* timeouts of the former client stay with it: it is destroyed if it had
\* connected, and had none otherwise
switchRoom(r) ==
    /\ ~effect.isCancelled
    /\ r # effect.roomId
    /\ effect' = [roomId |-> r, isCancelled |-> FALSE, isConnected |-> FALSE, wsRef |-> FALSE]
    /\ detached' = IF effect.isConnected /\ effect.wsRef /\ ws # "none"
                   THEN [detached EXCEPT ![sock] = IF ws = "closed" THEN "closed" ELSE "closing"]
                   ELSE detached
    /\ ws' = "none"
    /\ isDestroyed' = FALSE
    /\ isIntentionalClose' = FALSE
    /\ reconnectAttempts' = 0
    /\ reconnectTimeout' = NoTimer
    /\ timers' = << >>
    /\ vStrokes' = << >>
    /\ vTexts' = << >>
    /\ UNCHANGED <<hubVars, lStrokes, lTexts, pending, nextId, clock, sock, wire,
                   isSyncing, pass, isDisconnectedPermanently,
                   isConnectedState, lRooms>>

SwitchNext ==
    \/ /\ ws = "none" /\ nextId = 1 /\ effect.roomId = RoomId /\ ~effect.isConnected
       /\ \E now \in {clock, clock + 1} : addStroke("sA", 1, now)
       /\ Keep(TRUE)
    \/ nextClient <= MaxConnects /\ debounce /\ Hist(TRUE)
    \/ onopen /\ Keep(TRUE)
    \/ effect.roomId = RoomId /\ switchRoom("r2") /\ Hist(TRUE)
    \/ \E k \in Invocations : PassRead(k) /\ Keep(TRUE)
    \/ \E k \in Invocations : PassIter(k) /\ Keep(TRUE)
    \/ \E k \in Invocations : PassEnd(k) /\ Keep(TRUE)
    \/ \E c \in Accepted : ReadPump(c, FALSE) /\ Keep(TRUE)
    \/ \E c \in Accepted : HandlerReturn(c) /\ UNCHANGED cliVars
    \/ \E c \in Accepted : SrsFetch(c, TRUE) /\ UNCHANGED cliVars
    \/ \E c \in Accepted : SrsCheck(c) /\ UNCHANGED cliVars
    \/ \E c \in Accepted : SrsSend(c) /\ UNCHANGED cliVars
    \/ \E c \in Accepted : onmessage(c) /\ Keep(TRUE)

SwitchSpec == Init /\ [][SwitchNext]_vars

\* the invocations of sync in progress with a roomId
PassesOf(r) == {k \in Invocations : pass[k].pc # "idle" /\ RoomOfPass(k) = r}

\* onConnect runs in this step: the socket of the mounted view opens
Connects == ws = "connecting" /\ ws' = "open"

\* a pass for the room of the mounted view starts in this step
PassStarts ==
    \E k \in Invocations :
        /\ pass[k].pc = "idle" /\ pass'[k].pc = "read"
        /\ clientRoom[pass'[k].conn] = effect.roomId

\* C28: each successful connection to a room starts one replay pass for that
\* room unless a pass for that same room is in progress; a pass in progress
\* for another room does not suppress it
C28_PassPerRoom ==
    [][Connects /\ PassesOf(effect.roomId) = {} => PassStarts]_vars

\* C28, what holds: a successful connection starts a pass for its room unless
\* a pass for any room is in progress, and then it starts none
C28_OnePassAtATime ==
    [][Connects =>
          IF \E r \in RoomIds : PassesOf(r) # {}
          THEN pass' = pass
          ELSE PassStarts]_vars

\* C28 witness: the view of r2 is connected and no pass for r2 was started,
\* while the pass of the former view, for RoomId, is still in its loop
C28_Suppressed ==
    /\ effect.roomId = "r2" /\ ws = "open"
    /\ PassesOf("r2") = {}
    /\ \E k \in PassesOf(RoomId) : pass[k].pc = "loop" /\ pass[k].idx <= Len(pass[k].actions)
    /\ \A k \in Invocations : pass[k].conn # NoClient => RoomOfPass(k) # "r2"

\* ------------------------------------------------------------------------
\* JoinSpec: a peer is connected to room RoomId and sends mutations; the
\* browser, its log empty, joins the room.  The peer's handlers, the
\* sendRoomState goroutine of the joiner and the delivery of its queue run in
\* every interleaving.  Nothing fails, a message is enqueued for the joiner
\* only while its queue has room (no message is dropped), and the joiner's
\* socket hands over its messages once it is open.
\* ------------------------------------------------------------------------

\* the frames of the peer, before they are numbered
JoinMsgs ==
    {ClientMessage("stroke_add", "sA", NoVal), ClientMessage("stroke_update", "sA", NoVal),
     ClientMessage("text_delete", "tA", NoVal)}

\* the queue of the joiner has room for one more message
Room2 == Len(Send[2]) < SendCap

JoinNext ==
    \/ nextClient = 1 /\ WebSocketHandler(1, RoomId) /\ UNCHANGED cliVars
    \/ nextClient = 2 /\ debounce /\ Hist(TRUE)
    \/ onopen /\ Keep(TRUE)
    \/ \E k \in Invocations : PassRead(k) /\ Keep(TRUE)
    \/ \E k \in Invocations : PassEnd(k) /\ Keep(TRUE)
    \/ \E m \in JoinMsgs : nextClient > 1 /\ msgCount < JoinFrames /\ Frame(1, m)
    \/ ReadPump(1, FALSE) /\ Keep(TRUE)
    \/ Room2 /\ HandlerReturn(1) /\ UNCHANGED cliVars
    \/ \E c \in Accepted : SrsFetch(c, TRUE) /\ UNCHANGED cliVars
    \/ \E c \in Accepted : SrsCheck(c) /\ UNCHANGED cliVars
    \/ \E c \in Accepted : Room2 /\ SrsSend(c) /\ UNCHANGED cliVars
    \/ \E c \in Accepted : (c = sock => ws = "open") /\ onmessage(c) /\ Keep(TRUE)

JoinSpec == Init /\ [][JoinNext]_vars

\* the entities of a view, and the rows of a table of a room state
ViewSet(view) == {<<view[i].id, view[i].val>> : i \in 1..Len(view)}

RowSet(f) == {<<i, f[i]>> : i \in {j \in DOMAIN f : f[j] # NoVal}}

\* the joiner is connected and every message enqueued so far was delivered
\* and applied; the peer's frames were handled
AllApplied ==
    /\ ws = "open" /\ sock = 2
    /\ srs[1] = "done" /\ srs[2] = "done"
    /\ Send[1] = << >> /\ Send[2] = << >>
    /\ wire[1] = << >> /\ pc[1] = "read"

\* C32: a connection with an empty log registers while a peer keeps sending
\* mutations; once every enqueued message was delivered and applied in queue
\* order, with no drop, the joiner's view of strokes and text blocks equals
\* the room's persisted state
C32_JoinerConverges ==
    AllApplied =>
        /\ ViewSet(vStrokes) = RowSet(GetRoomState(RoomId).strokes)
        /\ ViewSet(vTexts) = RowSet(GetRoomState(RoomId).texts)

\* C32 witness: everything was delivered, the store holds the stroke the peer
\* added between the snapshot read and the enqueue of room_state, and the
\* joiner's view does not show it
C32_StrokeMissing ==
    /\ AllApplied
    /\ dbStrokes["sA"] # NoRec
    /\ "sA" \notin Ids(vStrokes)

\* ------------------------------------------------------------------------
\* PartSpec: connections register for room r1 and unregister while the
\* sendRoomState goroutines run, in every interleaving.  Connection 1 stays;
\* its queue is not drained, and a message is enqueued for it only while its
\* queue has room: the queue holds every message enqueued for it, in order.
\* The participant list its client holds once they were all delivered is the
\* result of the hook's handlers applied to the queue in order.
\* ------------------------------------------------------------------------

\* the queue of connection 1 has room for one more message
Room1 == Len(Send[1]) < SendCap

PartNext ==
    \/ /\ nextClient <= PartClients
       /\ Room1
       /\ WebSocketHandler(nextClient, "r1")
       /\ UNCHANGED cliVars
    \/ \E c \in Accepted \ {1} : Room1 /\ Unregister(c) /\ UNCHANGED cliVars
    \/ \E c \in Accepted \ {1} : WritePump(c) /\ UNCHANGED cliVars
    \/ \E c \in Accepted : SrsFetch(c, TRUE) /\ UNCHANGED cliVars
    \/ \E c \in Accepted : SrsCheck(c) /\ UNCHANGED cliVars
    \/ \E c \in Accepted : (c = 1 => Room1) /\ SrsSend(c) /\ UNCHANGED cliVars

PartSpec == Init /\ [][PartNext]_vars

\* the participants array of a room_state: the elements of the set in the
\* order the server's loop over the room's map met them (any order)
RECURSIVE ParticipantList(_)
ParticipantList(ps) ==
    IF ps = {} THEN << >>
    ELSE LET p == CHOOSE x \in ps : TRUE IN <<p>> \o ParticipantList(ps \ {p})

\* handleParticipantJoin: setParticipants(prev => [...prev, participant])
handleParticipantJoin(prev, participant) == Append(prev, participant)

\* handleParticipantLeave: setParticipants(prev => prev.filter(p => p.id !== id))
handleParticipantLeave(prev, participantId) ==
    SelectSeq(prev, LAMBDA p : p.id # participantId)

\* the hook's state "participants" after handleMessage took the messages of
\* q in order; handleRoomState calls setParticipants(roomParticipants)
RECURSIVE ParticipantsAfter(_, _)
ParticipantsAfter(q, prev) ==
    IF q = << >> THEN prev
    ELSE LET m == Head(q) IN
         ParticipantsAfter(Tail(q),
            CASE m.type = "room_state"        -> ParticipantList(m.participants)
              [] m.type = "participant_join"  ->
                    handleParticipantJoin(prev, [id |-> m.pid, color |-> m.id])
              [] m.type = "participant_leave" -> handleParticipantLeave(prev, m.pid)
              [] OTHER                        -> prev)

\* every sendRoomState goroutine started so far is over
NoSnapshotPending == \A c \in ClientIds : srs[c] \in {"none", "done"}

\* C33: once every enqueued message was delivered and applied in queue order
\* with no drop, the participant list a connected client holds equals the
\* Hub's membership of the room, each participant once
C33_ParticipantsConverge ==
    (NoSnapshotPending /\ 1 \in RoomOf(Rooms, "r1")) =>
        LET l == ParticipantsAfter(Send[1], << >>) IN
        /\ {l[i].id : i \in 1..Len(l)} = Rooms["r1"]
        /\ Len(l) = Cardinality(Rooms["r1"])

\* C33 witness: connection 2 registered between the participant snapshot of
\* connection 1 and the enqueue of its room_state: the list of connection 1
\* lacks connection 2, a member of the room
C33_JoinerMissing ==
    /\ NoSnapshotPending
    /\ Rooms = [r \in {"r1"} |-> {1, 2}]
    /\ Len(Send[1]) = 2
    /\ Send[1][1].type = "participant_join" /\ Send[1][1].pid = 2
    /\ Send[1][2].type = "room_state"
    /\ ParticipantsAfter(Send[1], << >>) = <<[id |-> 1, color |-> Colors[1]]>>

\* ------------------------------------------------------------------------
\* unregisterClient, step by step (Spec)
\* ------------------------------------------------------------------------

\* the message unregisterClient broadcasts for connection c
LeaveOf(c) == ServerMessage("participant_leave", c, Nil, NoVal)

\* what unregisterClient does for a connection its room's set does not hold
UnregisterIdle(c) ==
    c \notin RoomOf(Rooms, clientRoom[c]) =>
        UNCHANGED <<Rooms, Send, sendClosed, clientRoom, clientColor>>

\* what unregisterClient does for a registered connection, but for the
\* queues of the connections that stay
UnregisterLeaver(c) ==
    c \in RoomOf(Rooms, clientRoom[c]) =>
        /\ c \notin RoomOf(Rooms', clientRoom[c])
        /\ RoomOf(Rooms', clientRoom[c]) = Rooms[clientRoom[c]] \ {c}
        /\ ~sendClosed[c] /\ sendClosed'[c]
        /\ \A d \in ClientIds \ {c} : sendClosed'[d] = sendClosed[d]
        /\ Send'[c] = Send[c]
        /\ \A d \in ClientIds \ Rooms[clientRoom[c]] : Send'[d] = Send[d]

Handles(c) == pc[c] = "read" /\ pc'[c] = "handle"

\* C35: a message received on a connection registered in room R changes only
\* persisted entities owned by R: a stroke_update, text_update or text_delete
\* naming an entity of another room leaves that entity unchanged
C35_WritesStayInRoom ==
    [][/\ \A i \in StrokeIds :
             (dbStrokes[i] # NoRec /\ dbStrokes'[i] # dbStrokes[i]) =>
                \E c \in Accepted : Handles(c) /\ clientRoom[c] = dbStrokes[i].roomId
       /\ \A i \in TextIds :
             (dbTexts[i] # NoRec /\ dbTexts'[i] # dbTexts[i]) =>
                \E c \in Accepted : Handles(c) /\ clientRoom[c] = dbTexts[i].roomId]_vars

\* C35 witness: a connection of room r2 is in the handler of a stroke_update
\* naming a stroke of room r1, and the stroke has the points of the message
C35_ForeignUpdate ==
    \E c \in Accepted :
        /\ clientRoom[c] = "r2" /\ pc[c] = "handle"
        /\ cur[c].msg.type = "stroke_update" /\ ~cur[c].err
        /\ dbStrokes[cur[c].msg.id] # NoRec
        /\ dbStrokes[cur[c].msg.id].roomId = "r1"
        /\ dbStrokes[cur[c].msg.id].points = cur[c].msg.val
        /\ cur[c].msg.val # StoredStroke.points

\* a message was enqueued on connection d in this step
Enqueued(d) == Len(Send'[d]) = Len(Send[d]) + 1 /\ SubSeq(Send'[d], 1, Len(Send[d])) = Send[d]

\* the types the Hub fans out to a room: the presence events, clear_all and
\* the relayed client messages; room_state and error go to one connection
FannedOut == Mutating \cup {"cursor_move", "participant_join", "participant_leave"}

\* C36: every message the Hub enqueues because of a message from a connection
\* of room R, and every participant_join, participant_leave and clear_all of
\* R, is enqueued only on connections currently registered in R
C36_FanOutStaysInRoom ==
    [][\A d \in ClientIds :
          (Enqueued(d) /\ Send'[d][Len(Send'[d])].type \in FannedOut) =>
              LET m == Send'[d][Len(Send'[d])] IN
              /\ m.pid \in Accepted'
              /\ clientRoom'[m.pid] = clientRoom'[d]
              /\ d \in RoomOf(Rooms', clientRoom'[d])]_vars

\* C36 witness: rooms r1 and r2 both have connections; a connection of r1
\* holds a message relayed from another connection of r1, no connection of
\* r2 holds a message of that sender
C36_Witness ==
    \E c, d, x \in Accepted :
        /\ c # d /\ {c, d} \subseteq RoomOf(Rooms, "r1") /\ x \in RoomOf(Rooms, "r2")
        /\ \E i \in 1..Len(Send[d]) : Send[d][i].type \in Mutating /\ Send[d][i].pid = c
        /\ \A i \in 1..Len(Send[x]) : Send[x][i].pid # c

\* ------------------------------------------------------------------------
\* The hook's isConnected and the sockets of the client (ConnSpec)
\* ------------------------------------------------------------------------

\* a socket the client no longer refers to has its close event ahead
CloseEventPending == \E s \in ClientIds : detached[s] \in {"open", "connecting", "closing"}

\* C40: whenever the client's current socket is OPEN and no socket event is
\* pending, the hook's isConnected is true: the close event of an earlier,
\* superseded socket does not leave isConnected false while the newer socket
\* is OPEN
C40_OpenIsConnected ==
    (ws = "open" /\ ~isDestroyed /\ ~CloseEventPending) => isConnectedState

\* C40, second part: the close event of a superseded socket does not consume
\* a reconnect attempt while the newer socket is OPEN
C40_NoAttemptConsumed ==
    [][\A s \in ClientIds :
          (ws = "open" /\ ~isDestroyed /\ detached[s] \in {"open", "connecting", "closing"}
             /\ detached'[s] = "closed")
          => reconnectAttempts' = reconnectAttempts]_vars

\* C40 witness: the current socket is OPEN, the close event of the socket it
\* superseded was delivered, isConnected is false and an attempt is counted
C40_StaleClose ==
    /\ ws = "open" /\ ~isDestroyed /\ ~CloseEventPending
    /\ \E s \in ClientIds : s # sock /\ detached[s] = "closed"
    /\ ~isConnectedState
    /\ reconnectAttempts = 1

\* ------------------------------------------------------------------------
\* TitleSpec: the room record of the local database.  The view is mounted
\* for room RoomId and not connected, its strokes and text blocks are empty;
\* the user and the server change the title in any order.
\* ------------------------------------------------------------------------

\* the titles a room is given; "" is the empty string
Titles == {"", "Untitled", "Plan", "Notes"}

\* handleRoomUpdate: SyncService.updateRoomTitle(roomId, roomTitle, true)
handleRoomUpdate(roomTitle) ==
    /\ lRooms' = touchRoom(lRooms, effect.roomId, roomTitle)
    /\ UNCHANGED <<wire, pending, nextId, clock>>
    /\ TitleFrame

\* handleRoomState for the room_state of a room with no stroke and no text
\* block whose record has the given title: SyncService.touchRoom(roomId,
\* roomState.room.title); the merge leaves the empty view as it is
handleRoomStateOfEmptyRoom(title) ==
    /\ vStrokes = << >> /\ vTexts = << >>
    /\ lRooms' = touchRoom(lRooms, effect.roomId, title)
    /\ UNCHANGED <<wire, pending, nextId, clock>>
    /\ TitleFrame

TitleNext ==
    \/ /\ nextId <= MaxTitleActions
       /\ \E t \in Titles, now \in {clock, clock + 1} : updateRoomTitle(t, now)
       /\ UNCHANGED <<lockVars, base, clean, effect>>
    \/ \E t \in Titles : handleRoomUpdate(t) /\ UNCHANGED <<lockVars, base, clean, effect>>
    \/ \E t \in Titles :
          handleRoomStateOfEmptyRoom(t) /\ UNCHANGED <<lockVars, base, clean, effect>>

TitleSpec == Init /\ [][TitleNext]_vars

\* C37: after a room-title change to t, local or remote, or a room_state
\* carrying title t, the locally persisted room record's title is t, also
\* when a record for the room already existed with a different title
C37_TitleStored ==
    [][\A t \in Titles :
          (\/ \E now \in {clock, clock + 1} : updateRoomTitle(t, now)
           \/ handleRoomUpdate(t)
           \/ handleRoomStateOfEmptyRoom(t))
          => lRooms'[effect.roomId] = t]_vars

\* C37, what holds: the record's title becomes t only if there was no record
\* or its title was empty; otherwise the title stays what it was
C37_FirstTitleWins ==
    [][\A t \in Titles :
          (\/ \E now \in {clock, clock + 1} : updateRoomTitle(t, now)
           \/ handleRoomUpdate(t)
           \/ handleRoomStateOfEmptyRoom(t))
          => lRooms'[effect.roomId] =
                IF lRooms[effect.roomId] \in {Nil, ""} THEN t ELSE lRooms[effect.roomId]]_vars

\* C37 witness: the user changed the title to "Notes" (the last entry of the
\* log), and the record of the room has the title "Plan"
C37_OldTitleKept ==
    /\ pending # << >>
    /\ pending[Len(pending)].type = "room_update"
    /\ pending[Len(pending)].val = "Notes"
    /\ lRooms[RoomId] = "Plan"

\* ------------------------------------------------------------------------
\* Re-delivery of an add (Spec)
\* ------------------------------------------------------------------------

\* the adds naming an entity
Adds == {m \in ClientMsgs : m.type \in {"stroke_add", "text_add"} /\ m.id # Nil}

\* the entity an add names is persisted
AlreadyPersisted(m) ==
    IF m.type = "stroke_add" THEN dbStrokes[m.id] # NoRec ELSE dbTexts[m.id] # NoRec

\* C38: when the server processes a stroke_add or a text_add whose entity id
\* is already persisted, with no failure of the store, the persisted entity
\* is unchanged and the handler sends no error reply to the sender
C38_ReAddHarmless ==
    [][\A c \in Accepted, m \in Adds :
          (AlreadyPersisted(m) /\ Dispatch(c, m, FALSE)) =>
              /\ dbStrokes' = dbStrokes /\ dbTexts' = dbTexts
              /\ HandlerSends(c)'[c] = Send'[c]]_vars

\* C38, the part that holds: a stroke_add whose id is already persisted
\* leaves the stroke unchanged and is answered by no error reply
C38_StrokeReAdd ==
    [][\A c \in Accepted, m \in Adds :
          (m.type = "stroke_add" /\ AlreadyPersisted(m) /\ Dispatch(c, m, FALSE)) =>
              /\ dbStrokes' = dbStrokes /\ dbTexts' = dbTexts
              /\ HandlerSends(c)'[c] = Send'[c]]_vars

\* C38 witness: the handler of a text_add for a persisted text block is
\* about to send the error reply; the text block is as it was stored
C38_ErrorOnReAdd ==
    \E c \in Accepted :
        /\ pc[c] = "handle" /\ cur[c].msg.type = "text_add" /\ cur[c].err
        /\ dbTexts[cur[c].msg.id] = StoredText
        /\ Len(Send[c]) < SendCap
        /\ HandlerSends(c)[c] = Append(Send[c], ServerMessage("error", NoClient, Nil, NoVal))

\* ------------------------------------------------------------------------
\* LockSpec: the Hub at the level of its goroutines.  Hub.Run takes one
\* request at a time off the unbuffered channels Register and Unregister and
\* serves it under RoomsMu.Lock(); the handlers of the reader loops and the
\* sendRoomState goroutines call the store and take RoomsMu.RLock().  A
\* connection's reader loop ends at any time (the peer closes); its writer
\* loop then no longer drains its queue.
\* ------------------------------------------------------------------------

\* the inbound messages of LockSpec
LockMsgs == {ClientMessage("stroke_add", "sA", 1)}

\* the goroutines that take the shared lock
ReadPumpOf(c) == [g |-> "ReadPump", c |-> c]

SendRoomStateOf(c) == [g |-> "sendRoomState", c |-> c]

\* Hub.Run waiting in its select
IdleRun == [op |-> Nil, c |-> NoClient, at |-> "select"]

\* a send "ch <- data" with no default case: it waits until the channel has room
SelectSend_NoDefault(q) == Len(q) < SendCap

\* select { case ch <- data: default: }: the send never waits
SelectSend(q) == TRUE

\* RWMutex.RLock returns at once unless a goroutine holds the lock
\* exclusively or waits in Lock()
CanRLock == RoomsMu.writer = Nil /\ ~RoomsMu.waiting

RLock(g) == RoomsMu' = [RoomsMu EXCEPT !.readers = @ \cup {g}]

RUnlock(g) == RoomsMu' = [RoomsMu EXCEPT !.readers = @ \ {g}]

\* WebSocketHandler up to "h.Register <- client": the send waits for Hub.Run
Accept(c, r) ==
    /\ c = nextClient
    /\ nextClient' = nextClient + 1
    /\ clientRoom' = [clientRoom EXCEPT ![c] = r]
    /\ pc' = [pc EXCEPT ![c] = "Register"]
    /\ UNCHANGED <<Rooms, clientColor, Send, sendClosed, cur, srs, snap, dbStrokes,
                   dbTexts, msgCount, leftSince, lockVars>>

\* the reader loop ends and runs "h.Unregister <- c": the send waits for Hub.Run
ReadPumpEnds(c) ==
    /\ pc[c] = "read"
    /\ pc' = [pc EXCEPT ![c] = "Unregister"]
    /\ UNCHANGED <<Rooms, clientRoom, clientColor, Send, sendClosed, nextClient, cur,
                   srs, snap, dbStrokes, dbTexts, msgCount, leftSince, lockVars>>

\* Hub.Run's select receives a client from one of its channels (the sender
\* goes on: WebSocketHandler starts the pumps, the reader loop returns) and
\* calls registerClient or unregisterClient, which call RoomsMu.Lock()
RunReceive(c) ==
    /\ run.at = "select"
    /\ pc[c] \in {"Register", "Unregister"}
    /\ run' = [op |-> pc[c], c |-> c, at |-> "Lock"]
    /\ RoomsMu' = [RoomsMu EXCEPT !.waiting = TRUE]
    /\ pc' = [pc EXCEPT ![c] = IF pc[c] = "Register" THEN "read" ELSE "closed"]
    /\ UNCHANGED <<Rooms, clientRoom, clientColor, Send, sendClosed, nextClient, cur,
                   srs, snap, dbStrokes, dbTexts, msgCount, leftSince>>

\* RoomsMu.Lock() returns: no goroutine holds the lock
RunLock ==
    /\ run.at = "Lock"
    /\ RoomsMu.readers = {}
    /\ RoomsMu' = [writer |-> "Run", readers |-> {}, waiting |-> FALSE]
    /\ run' = [run EXCEPT !.at = "locked"]
    /\ UNCHANGED hubVars

\* the body of registerClient or unregisterClient and RoomsMu.Unlock(); the
\* sends of its broadcast are made if they do not wait
RunLocked ==
    /\ run.at = "locked"
    /\ \A d \in RoomOf(Rooms, clientRoom[run.c]) \ {run.c} : SelectSend(Send[d])
    /\ IF run.op = "Register"
       THEN /\ registerClient(run.c, clientRoom[run.c])
            /\ UNCHANGED <<sendClosed, leftSince>>
       ELSE /\ unregisterClient(run.c)
            /\ UNCHANGED <<clientColor, srs>>
    /\ RoomsMu' = [RoomsMu EXCEPT !.writer = Nil]
    /\ run' = IdleRun
    /\ UNCHANGED <<clientRoom, nextClient, pc, cur, snap, dbStrokes, dbTexts, msgCount>>

\* a handler that broadcasts calls RoomsMu.RLock() after its store call
HandlerRLock(c) ==
    /\ pc[c] = "handle"
    /\ ~cur[c].err
    /\ CanRLock
    /\ RLock(ReadPumpOf(c))
    /\ pc' = [pc EXCEPT ![c] = "broadcast"]
    /\ UNCHANGED <<Rooms, clientRoom, clientColor, Send, sendClosed, nextClient, cur,
                   srs, snap, dbStrokes, dbTexts, msgCount, leftSince, run>>

\* the loop of the broadcast under the shared lock, and RoomsMu.RUnlock()
HandlerBroadcast(c) ==
    /\ pc[c] = "broadcast"
    /\ \A d \in RoomOf(Rooms, clientRoom[c]) : SelectSend(Send[d])
    /\ Send' = HandlerSends(c)
    /\ RUnlock(ReadPumpOf(c))
    /\ pc' = [pc EXCEPT ![c] = "read"]
    /\ cur' = [cur EXCEPT ![c] = NoRec]
    /\ UNCHANGED <<Rooms, clientRoom, clientColor, sendClosed, nextClient,
                   srs, snap, dbStrokes, dbTexts, msgCount, leftSince, run>>

\* sendRoomState calls RoomsMu.RLock() after its store call
SrsRLock(c) ==
    /\ srs[c] = "check"
    /\ SendRoomStateOf(c) \notin RoomsMu.readers
    /\ CanRLock
    /\ RLock(SendRoomStateOf(c))
    /\ UNCHANGED <<hubVars, run>>

\* sendRoomState under the shared lock, and RoomsMu.RUnlock()
SrsLocked(c) ==
    /\ SendRoomStateOf(c) \in RoomsMu.readers
    /\ SrsCheck(c)
    /\ RUnlock(SendRoomStateOf(c))
    /\ UNCHANGED run

\* the writer loop of a connection whose reader loop has not ended
LiveWritePump(c) ==
    /\ pc[c] \in {"read", "handle", "broadcast"}
    /\ WritePump(c)
    /\ UNCHANGED lockVars

\* the goroutine of Hub.Run
Run ==
    /\ \/ \E c \in Accepted : RunReceive(c)
       \/ RunLock
       \/ RunLocked
    /\ UNCHANGED browserVars

\* the handler of the message the reader loop of connection c dispatched
Handler(c) ==
    /\ \/ HandlerRLock(c)
       \/ HandlerBroadcast(c)
    /\ UNCHANGED browserVars

\* the sendRoomState goroutine of connection c
sendRoomState(c) ==
    /\ \/ SrsFetch(c, TRUE) /\ UNCHANGED lockVars
       \/ SrsRLock(c)
       \/ SrsLocked(c)
       \/ SrsSend(c) /\ UNCHANGED lockVars
    /\ UNCHANGED browserVars

LockNext ==
    \/ nextClient <= LockClients /\ Accept(nextClient, "r1") /\ UNCHANGED browserVars
    \/ \E c \in Accepted, m \in LockMsgs : Dispatch(c, m, FALSE) /\ UNCHANGED cliVars
    \/ \E c \in Accepted : ReadPumpEnds(c) /\ UNCHANGED browserVars
    \/ Run
    \/ \E c \in Accepted : Handler(c)
    \/ \E c \in Accepted : sendRoomState(c)
    \/ \E c \in Accepted : LiveWritePump(c) /\ UNCHANGED browserVars

\* the server starts with an empty store
LockInit == Init /\ dbStrokes = [i \in StrokeIds |-> NoRec]

LockSpec == LockInit /\ [][LockNext]_vars

\* every goroutine of the Hub that can take a step is scheduled (the Go
\* runtime runs every runnable goroutine, and a store call returns); the
\* peers need not do anything
LockLiveSpec ==
    /\ LockSpec
    /\ WF_vars(Run)
    /\ \A c \in 1..LockClients :
          WF_vars(Handler(c)) /\ WF_vars(sendRoomState(c))
              /\ WF_vars(LiveWritePump(c) /\ UNCHANGED browserVars)

\* the goroutines that make a call of the store in this step: a handler's
\* persistence call, GetRoomState
StoreCallers ==
    {ReadPumpOf(c) : c \in {d \in ClientIds : pc[d] = "read" /\ pc'[d] = "handle"}}
    \cup {SendRoomStateOf(c) : c \in {d \in ClientIds : srs[d] = "fetch" /\ srs'[d] = "check"}}

\* C39, the discipline: no store call is made by a goroutine that holds the
\* Hub lock (Hub.Run makes none), and the membership map is changed only by
\* the goroutine that holds the lock exclusively
LockDiscipline ==
    /\ StoreCallers \cap RoomsMu.readers = {}
    /\ Rooms' # Rooms => RoomsMu.writer = "Run" /\ RoomsMu.readers = {}

\* connection c has a request that is not completed: its register or
\* unregister request waits for Hub.Run or is being served, its handler has
\* not returned from its broadcast, its sendRoomState goroutine is not over
Pending(c) ==
    \/ pc[c] \in {"Register", "Unregister", "handle", "broadcast"}
    \/ run.c = c
    \/ srs[c] \in {"fetch", "check", "send"}

\* C39: no store call and no blocking send happens while the Hub lock is
\* held, membership is mutated only under the exclusive lock, and under any
\* interleaving every register request, unregister request and broadcast
\* eventually completes: the Hub neither deadlocks nor waits forever on a
\* full or closed queue
C39_HubProgress ==
    /\ [][LockDiscipline]_vars
    /\ []<>(run = IdleRun /\ \A c \in 1..LockClients : ~Pending(c))

\* C39 witness: Hub.Run is back in its select after it served the requests
\* of two connections, one of them an unregister, while the queue of the
\* connection that stays is full
C39_Witness ==
    /\ run = IdleRun /\ RoomsMu.readers = {}
    /\ \E c, d \in 1..LockClients :
          /\ sendClosed[c] /\ pc[c] = "closed"
          /\ d \in RoomOf(Rooms, "r1") /\ Len(Send[d]) = SendCap

====
